---- MODULE Spec2Model ----
(***************************************************************************)
(* json-xsd-to-xml: a JSON value is converted to an XML node tree whose    *)
(* shape is dictated by a SchemaModel.  The module models                  *)
(*   - the SchemaModel data (ElementDef, ComplexTypeDef, AttributeDef),    *)
(*   - SchemaWalker (src/src/xsd/walker.ts),                               *)
(*   - validateJson / validateElement (src/unnamed/part_003),              *)
(*   - buildXml / buildElement / buildWildcardValue                        *)
(*     (src/src/xml/builder.ts, the module converter.ts imports),          *)
(*   - convertJsonToXml (src/src/converter.ts), one step per call it makes.*)
(* JSON values, XML nodes and schema entities are records with a uniform   *)
(* set of fields, so that any two of them can be compared.                 *)
(***************************************************************************)
EXTENDS Integers, Sequences, FiniteSets, TLC

VARIABLES
  schema,    \* the SchemaModel returned by parseXsd (rawModel in convertJsonToXml)
  json,      \* the JSON value given to convertJsonToXml
  options,   \* ConverterOptions after defaulting
  pc,        \* position of the convertJsonToXml call
  walker,    \* the SchemaModel the SchemaWalker wraps (schemaModel)
  outcome,   \* what the call produced: nothing yet, an XML document or an error
  calls,     \* history: the calls convertJsonToXml has made, in order
  lastQuery, \* the last SchemaWalker query made directly on a model and its answer
  files,     \* the file system parseXsd reads: resolved path -> tokenized document
  xsdPath,   \* the path given to parseXsd
  visitedFiles, \* the visited set threaded through parseXsdInternal
  stack,     \* the parseXsdInternal calls in progress, the innermost last
  reads,     \* history: the paths readFile was called with, in order
  parsed,    \* what parseXsd produced: nothing yet, a SchemaModel or an XsdParseError
  suspended  \* a second parseXsd call, waiting at an await while the first runs

vars == <<schema, json, options, pc, walker, outcome, calls, lastQuery,
          files, xsdPath, visitedFiles, stack, reads, parsed, suspended>>

\* the variables of the parseXsd calls
parserVars == <<files, xsdPath, visitedFiles, stack, reads, parsed, suspended>>

(***************************************************************************)
(* Bounds of the model.                                                    *)
(***************************************************************************)
\* number of named complex types in the generated extends graphs
NTypes == 3
\* longest JSON array the inputs contain
MaxItems == 2
\* most includes and imports the top-level schema file has
MaxEdges == 2
\* deepest nesting of parseXsdInternal calls the model follows
MaxDepth == 5

(***************************************************************************)
(* Small helpers on sequences and strings.                                 *)
(***************************************************************************)
Range(s) == {s[i] : i \in 1..Len(s)}

RECURSIVE Flatten(_)
\* concatenation of a sequence of sequences
Flatten(ss) == IF ss = <<>> THEN <<>> ELSE Head(ss) \o Flatten(Tail(ss))

\* key.startsWith(prefix)
startsWith(key, prefix) ==
  /\ Len(key) >= Len(prefix)
  /\ SubSeq(key, 1, Len(prefix)) = prefix

LowerChar ==
  [c \in {"A","B","C","D","E","F","G","H","I","J","K","L","M","N","O","P","Q",
          "R","S","T","U","V","W","X","Y","Z"} |->
     CASE c = "A" -> "a" [] c = "B" -> "b" [] c = "C" -> "c" [] c = "D" -> "d"
       [] c = "E" -> "e" [] c = "F" -> "f" [] c = "G" -> "g" [] c = "H" -> "h"
       [] c = "I" -> "i" [] c = "J" -> "j" [] c = "K" -> "k" [] c = "L" -> "l"
       [] c = "M" -> "m" [] c = "N" -> "n" [] c = "O" -> "o" [] c = "P" -> "p"
       [] c = "Q" -> "q" [] c = "R" -> "r" [] c = "S" -> "s" [] c = "T" -> "t"
       [] c = "U" -> "u" [] c = "V" -> "v" [] c = "W" -> "w" [] c = "X" -> "x"
       [] c = "Y" -> "y" [] c = "Z" -> "z"]

RECURSIVE toLowerCase(_)
\* String.prototype.toLowerCase on the ASCII letters
toLowerCase(s) ==
  IF Len(s) = 0 THEN ""
  ELSE LET c == SubSeq(s, 1, 1)
       IN (IF c \in DOMAIN LowerChar THEN LowerChar[c] ELSE c)
            \o toLowerCase(SubSeq(s, 2, Len(s)))

(***************************************************************************)
(* Schema entities (xsd/types.ts as produced by the parser).               *)
(* "" stands for an absent string (typeName, extends, inline type).        *)
(***************************************************************************)
\* parseOccurs result: a number or 'unbounded'
Occurs(n) == [unbounded |-> FALSE, n |-> n]
Unbounded == [unbounded |-> TRUE, n |-> 0]

\* isUnboundedOrMany(max)
isUnboundedOrMany(max) == max.unbounded \/ max.n > 1

\* parseElement: an ElementDef; inline names the element's inline complex type
\* in the model's inlineTypes ("" when it has none); attributes is always []
\* and children is inlineComplexType?.elements ?? []
ElementDef(name, typeName, inline, minOccurs, maxOccurs) ==
  [name |-> name, typeName |-> typeName, inline |-> inline,
   minOccurs |-> minOccurs, maxOccurs |-> maxOccurs,
   isArray |-> isUnboundedOrMany(maxOccurs)]

\* parseAttribute: an AttributeDef; hasDefault tells whether default is defined
AttributeDef(name, use, hasDefault, default) ==
  [name |-> name, type |-> "xs:string", use |-> use,
   hasDefault |-> hasDefault, default |-> default]

\* parseComplexType: a ComplexTypeDef
ComplexTypeDef(name, compositor, elements, attributes, hasTextContent, extends, hasWildcard) ==
  [name |-> name, compositor |-> compositor, elements |-> elements,
   attributes |-> attributes, hasTextContent |-> hasTextContent,
   extends |-> extends, hasWildcard |-> hasWildcard]

\* a SchemaModel: elements and complexTypes are maps (functions on their keys);
\* inlineTypes holds the inline complex types the ElementDefs refer to
SchemaModel(rootElement, elements, complexTypes, inlineTypes, simpleTypes, targetNamespace) ==
  [rootElement |-> rootElement, elements |-> elements, complexTypes |-> complexTypes,
   inlineTypes |-> inlineTypes, simpleTypes |-> simpleTypes,
   targetNamespace |-> targetNamespace]

EmptyMap == [k \in {} |-> k]

\* no parseXsd call is modelled: the conversion starts from its result
NoParse == [kind |-> "none", message |-> "", model |-> <<>>]
\* no second call
NoCall ==
  [pc |-> "none", xsdPath |-> "", visitedFiles |-> {}, stack |-> <<>>, reads |-> <<>>,
   parsed |-> NoParse, interleaved |-> FALSE]
ParserIdle ==
  /\ files = EmptyMap
  /\ xsdPath = ""
  /\ visitedFiles = {}
  /\ stack = <<>>
  /\ reads = <<>>
  /\ parsed = NoParse
  /\ suspended = NoCall

(***************************************************************************)
(* SchemaWalker (src/src/xsd/walker.ts).  m is the wrapped model.          *)
(***************************************************************************)
\* lookupElement(name) !== undefined
hasElement(m, name) == name \in DOMAIN m.elements

\* lookupElement(name), where it is defined
lookupElement(m, name) == m.elements[name]

\* resolveComplexTypeForElement(el) !== undefined
hasComplexType(m, el) ==
  \/ el.inline # ""
  \/ el.typeName # "" /\ el.typeName \in DOMAIN m.complexTypes

\* resolveComplexTypeForElement(el), where it is defined
resolveComplexTypeForElement(m, el) ==
  IF el.inline # "" THEN m.inlineTypes[el.inline] ELSE m.complexTypes[el.typeName]

\* lines 4-38: the built-in XSD simple types that map to text content
XS_SIMPLE_TYPES ==
  {"xs:string", "xs:integer", "xs:int", "xs:long", "xs:short", "xs:decimal",
   "xs:float", "xs:double", "xs:boolean", "xs:date", "xs:time", "xs:dateTime",
   "xs:duration", "xs:anyURI", "xs:base64Binary", "xs:hexBinary", "xs:token",
   "xs:normalizedString", "xs:positiveInteger", "xs:nonNegativeInteger",
   "xs:negativeInteger", "xs:nonPositiveInteger", "xs:unsignedInt",
   "xs:unsignedLong", "xs:unsignedShort", "xs:byte", "xs:unsignedByte", "xs:ID",
   "xs:IDREF", "xs:NMTOKEN", "xs:Name", "xs:QName", "xs:anyType"}

\* lines 72-76: "" is an absent typeName
isSimpleType(m, typeName) ==
  IF typeName = "" THEN TRUE
  ELSE IF typeName \in XS_SIMPLE_TYPES THEN TRUE
  ELSE typeName \in m.simpleTypes

RECURSIVE resolveAllElements(_, _, _)
resolveAllElements(m, ct, visited) ==
  IF ct.name \in visited THEN ct.elements
  ELSE IF ct.extends = "" THEN ct.elements
  ELSE IF ct.extends \notin DOMAIN m.complexTypes THEN ct.elements
  ELSE resolveAllElements(m, m.complexTypes[ct.extends], visited \cup {ct.name})
         \o ct.elements

RECURSIVE resolveAllAttributes(_, _, _)
resolveAllAttributes(m, ct, visited) ==
  IF ct.name \in visited THEN ct.attributes
  ELSE IF ct.extends = "" THEN ct.attributes
  ELSE IF ct.extends \notin DOMAIN m.complexTypes THEN ct.attributes
  ELSE resolveAllAttributes(m, m.complexTypes[ct.extends], visited \cup {ct.name})
         \o ct.attributes

RECURSIVE resolveHasWildcard(_, _, _)
resolveHasWildcard(m, ct, visited) ==
  IF ct.hasWildcard THEN TRUE
  ELSE IF ct.extends = "" \/ ct.name \in visited THEN FALSE
  ELSE IF ct.extends \in DOMAIN m.complexTypes
       THEN resolveHasWildcard(m, m.complexTypes[ct.extends], visited \cup {ct.name})
       ELSE FALSE

RECURSIVE resolveCalls(_, _, _, _)
\* the names of the complex types resolveAllElements (and resolveAllAttributes,
\* which has the same conditions) is called on, in call order; the walk is
\* followed for at most fuel calls
resolveCalls(m, ct, visited, fuel) ==
  IF fuel = 0 THEN <<>>
  ELSE IF ct.name \in visited THEN <<ct.name>>
  ELSE IF ct.extends = "" THEN <<ct.name>>
  ELSE IF ct.extends \notin DOMAIN m.complexTypes THEN <<ct.name>>
  ELSE <<ct.name>> \o resolveCalls(m, m.complexTypes[ct.extends], visited \cup {ct.name},
                                   fuel - 1)

RECURSIVE wildcardCalls(_, _, _, _)
\* the names of the complex types resolveHasWildcard is called on, likewise
wildcardCalls(m, ct, visited, fuel) ==
  IF fuel = 0 THEN <<>>
  ELSE IF ct.hasWildcard THEN <<ct.name>>
  ELSE IF ct.extends = "" \/ ct.name \in visited THEN <<ct.name>>
  ELSE IF ct.extends \in DOMAIN m.complexTypes
       THEN <<ct.name>> \o wildcardCalls(m, m.complexTypes[ct.extends],
                                        visited \cup {ct.name}, fuel - 1)
       ELSE <<ct.name>>

\* the visited set of the previous call handed on to the next one
sharedSet(previous) == previous

\* visited = new Set<string>(): the default value of the parameter is
\* evaluated at each call that does not pass one
newSet(previous) == {}

\* getChildElementsForElement(el); el.children is [] when el has no complex type
getChildElementsForElement(m, el) ==
  IF ~hasComplexType(m, el) THEN <<>>
  ELSE resolveAllElements(m, resolveComplexTypeForElement(m, el), {})

\* getAttributesForElement(el); el.attributes is always []
getAttributesForElement(m, el) ==
  IF ~hasComplexType(m, el) THEN <<>>
  ELSE resolveAllAttributes(m, resolveComplexTypeForElement(m, el), {})

\* hasWildcardForElement(el)
hasWildcardForElement(m, el) ==
  IF ~hasComplexType(m, el) THEN FALSE
  ELSE resolveHasWildcard(m, resolveComplexTypeForElement(m, el), {})

(***************************************************************************)
(* JSON values (src/unnamed/part_002, types.ts).  t is the kind of value:  *)
(* "undefined", "null", "string", "number", "array" or "object"; an object *)
(* keeps its keys in insertion order, keys[i] holding items[i].            *)
(***************************************************************************)
JUndefined == [t |-> "undefined", s |-> "", n |-> 0, keys |-> <<>>, items |-> <<>>]
JNull == [t |-> "null", s |-> "", n |-> 0, keys |-> <<>>, items |-> <<>>]
JStr(str) == [t |-> "string", s |-> str, n |-> 0, keys |-> <<>>, items |-> <<>>]
JNum(num) == [t |-> "number", s |-> "", n |-> num, keys |-> <<>>, items |-> <<>>]
JArr(items) == [t |-> "array", s |-> "", n |-> 0, keys |-> <<>>, items |-> items]
JObj(keys, items) == [t |-> "object", s |-> "", n |-> 0, keys |-> keys, items |-> items]

\* value === null || value === undefined
isNullish(value) == value.t \in {"null", "undefined"}
\* Array.isArray(value)
isArray(value) == value.t = "array"
\* typeof value === 'object' for a value that is not null: arrays and objects
isObjectType(value) == value.t \in {"array", "object"}

\* Object.prototype.hasOwnProperty.call(obj, key)
hasOwnProperty(obj, key) == \E i \in 1..Len(obj.keys) : obj.keys[i] = key

\* obj[key]: undefined when obj has no such key
Get(obj, key) ==
  IF hasOwnProperty(obj, key)
  THEN obj.items[CHOOSE i \in 1..Len(obj.keys) : obj.keys[i] = key]
  ELSE JUndefined

RECURSIVE JoinItems(_)
RECURSIVE String(_)
\* String(value): a number in decimal, null "null", an object "[object Object]",
\* an array its items joined by "," with null and undefined items empty
String(value) ==
  CASE value.t = "string" -> value.s
    [] value.t = "number" -> ToString(value.n)
    [] value.t = "null" -> "null"
    [] value.t = "undefined" -> "undefined"
    [] value.t = "object" -> "[object Object]"
    [] value.t = "array" -> JoinItems(value.items)

JoinItems(items) ==
  IF items = <<>> THEN ""
  ELSE (IF isNullish(Head(items)) THEN "" ELSE String(Head(items)))
         \o (IF Len(items) > 1 THEN "," \o JoinItems(Tail(items)) ELSE "")

RECURSIVE StringifyItems(_)
RECURSIVE StringifyEntries(_, _)
RECURSIVE JSONstringify(_)
\* JSON.stringify(value) of a JSON value
JSONstringify(value) ==
  CASE value.t = "string" -> "\"" \o value.s \o "\""
    [] value.t = "number" -> ToString(value.n)
    [] value.t \in {"null", "undefined"} -> "null"
    [] value.t = "array" -> "[" \o StringifyItems(value.items) \o "]"
    [] value.t = "object" -> "{" \o StringifyEntries(value.keys, value.items) \o "}"

StringifyItems(items) ==
  IF items = <<>> THEN ""
  ELSE JSONstringify(Head(items))
         \o (IF Len(items) > 1 THEN "," \o StringifyItems(Tail(items)) ELSE "")

StringifyEntries(keys, items) ==
  IF keys = <<>> THEN ""
  ELSE "\"" \o Head(keys) \o "\":" \o JSONstringify(Head(items))
         \o (IF Len(keys) > 1 THEN "," \o StringifyEntries(Tail(keys), Tail(items)) ELSE "")

\* lookupCI(obj, name) of utils.ts: the exact key first, otherwise the first
\* key equal to name ignoring case, otherwise undefined
lookupCI(obj, name) ==
  IF hasOwnProperty(obj, name) THEN Get(obj, name)
  ELSE LET hits == {i \in 1..Len(obj.keys) : toLowerCase(obj.keys[i]) = toLowerCase(name)}
       IN IF hits = {} THEN JUndefined
          ELSE obj.items[CHOOSE i \in hits : \A j \in hits : i <= j]

\* lowerSet(names)
lowerSet(names) == {toLowerCase(n) : n \in names}

(***************************************************************************)
(* validateJson / validateElement (src/unnamed/part_003).                  *)
(* o carries attributePrefix and textNodeKey.  The issues array the code   *)
(* threads through the recursion is the concatenation of what each call    *)
(* pushes, in call order.                                                  *)
(***************************************************************************)
ValidationIssue(path, message) == [path |-> path, message |-> message]

\* a loop over the attributes that asks for every one of them, whatever its use
RequiredAttributeIssuesIgnoringUse(attrs, obj, path, o) ==
  Flatten([i \in 1..Len(attrs) |->
    IF Get(obj, o.attributePrefix \o attrs[i].name).t = "undefined"
    THEN <<ValidationIssue(path \o "." \o o.attributePrefix \o attrs[i].name,
             "Required attribute \"" \o attrs[i].name \o "\" is missing.")>>
    ELSE <<>>])

\* the issues pushed by the loop over the required attributes
RequiredAttributeIssues(attrs, obj, path, o) ==
  Flatten([i \in 1..Len(attrs) |->
    IF attrs[i].use = "required"
       /\ Get(obj, o.attributePrefix \o attrs[i].name).t = "undefined"
    THEN <<ValidationIssue(path \o "." \o o.attributePrefix \o attrs[i].name,
             "Required attribute \"" \o attrs[i].name \o "\" is missing.")>>
    ELSE <<>>])

\* the issues pushed by the loop over the keys of the object
UnknownPropertyIssues(m, el, obj, path, o) ==
  LET knownChildren == {c.name : c \in Range(getChildElementsForElement(m, el))}
      knownAttrs == {o.attributePrefix \o a.name : a \in Range(getAttributesForElement(m, el))}
      elementHasWildcard == hasWildcardForElement(m, el)
  IN Flatten([i \in 1..Len(obj.keys) |->
       IF obj.keys[i] = o.textNodeKey THEN <<>>
       ELSE IF obj.keys[i] \in knownChildren \/ obj.keys[i] \in knownAttrs THEN <<>>
       ELSE IF elementHasWildcard THEN <<>>
       ELSE <<ValidationIssue(path \o "." \o obj.keys[i],
                "Unknown property \"" \o obj.keys[i]
                  \o "\" not declared in schema for element \"" \o el.name \o "\".")>>])

RECURSIVE validateElement(_, _, _, _, _)
validateElement(m, el, value, path, o) ==
  IF isArray(value) THEN
    IF ~el.isArray
    THEN <<ValidationIssue(path, "Element \"" \o el.name
             \o "\" does not allow multiple occurrences (maxOccurs=1), but an array was provided.")>>
    ELSE Flatten([i \in 1..Len(value.items) |->
           validateElement(m, el, value.items[i],
                           path \o "[" \o ToString(i - 1) \o "]", o)])
  ELSE IF ~hasComplexType(m, el) THEN
    IF value.t # "null" /\ isObjectType(value)
    THEN <<ValidationIssue(path, "Element \"" \o el.name
             \o "\" is a simple type but received an object.")>>
    ELSE <<>>
  ELSE IF isNullish(value) THEN
    IF el.minOccurs > 0
    THEN <<ValidationIssue(path, "Required element \"" \o el.name \o "\" is null/undefined.")>>
    ELSE <<>>
  ELSE IF ~isObjectType(value) THEN
    <<ValidationIssue(path, "Element \"" \o el.name
        \o "\" expects an object (complexType) but received a scalar/array.")>>
  ELSE
    LET resolvedChildren == getChildElementsForElement(m, el)
    IN RequiredAttributeIssues(getAttributesForElement(m, el), value, path, o)
       \o Flatten([i \in 1..Len(resolvedChildren) |->
            LET childEl == resolvedChildren[i]
                childValue == Get(value, childEl.name)
            IN IF childEl.minOccurs > 0 /\ isNullish(childValue)
               THEN <<ValidationIssue(path \o "." \o childEl.name,
                        "Required element \"" \o childEl.name \o "\" (minOccurs="
                          \o ToString(childEl.minOccurs) \o ") is missing.")>>
               ELSE IF ~isNullish(childValue)
               THEN validateElement(m, childEl, childValue, path \o "." \o childEl.name, o)
               ELSE <<>>])
       \o UnknownPropertyIssues(m, el, value, path, o)

\* a validateJson that stops at the first violation it meets
validateJsonFirstIssueOnly(m, js, o) ==
  LET rootName == m.rootElement
      all == IF ~hasElement(m, rootName)
             THEN <<ValidationIssue("$", "Root element \"" \o rootName \o "\" not found in schema.")>>
             ELSE validateElement(m, lookupElement(m, rootName),
                    (IF Get(js, rootName).t # "undefined" THEN Get(js, rootName) ELSE js),
                    "$." \o rootName, o)
  IN IF all = <<>> THEN <<>> ELSE <<all[1]>>

\* validateJson(json, walker, attributePrefix, textNodeKey): the issues of the
\* XsdValidationError it throws, or <<>> when it returns normally
validateJson(m, js, o) ==
  LET rootName == m.rootElement
  IN IF ~hasElement(m, rootName)
     THEN <<ValidationIssue("$", "Root element \"" \o rootName \o "\" not found in schema.")>>
     ELSE validateElement(m, lookupElement(m, rootName),
            (IF Get(js, rootName).t # "undefined" THEN Get(js, rootName) ELSE js),
            "$." \o rootName, o)

(***************************************************************************)
(* buildXml / buildElement / buildWildcardValue (src/src/xml/builder.ts).  *)
(* The XML node tree the code builds through xmlbuilder2: an element node  *)
(* has a name, attributes and child nodes; node.txt adds a text node.      *)
(* A call either throws XsdMappingError(path) or yields the attributes and *)
(* child nodes it put on the node it was given.                            *)
(* ci = FALSE is builder.ts; ci = TRUE is the variant of                   *)
(* src/unnamed/part_004 (lines 21-220), which differs from it only in the  *)
(* three lookups made through lookupCI and in the lowercased set of known  *)
(* child names.                                                            *)
(***************************************************************************)
XText(text) == [kind |-> "text", name |-> "", text |-> text, attrs |-> <<>>, kids |-> <<>>]
XElement(name, attrs, kids) ==
  [kind |-> "element", name |-> name, text |-> "", attrs |-> attrs, kids |-> kids]
XAttr(name, value) == [name |-> name, value |-> value]

Thrown(path) == [threw |-> TRUE, path |-> path, attrs |-> <<>>, kids |-> <<>>]
Built(attrs, kids) == [threw |-> FALSE, path |-> "", attrs |-> attrs, kids |-> kids]

\* node.att(name, value): sets the attribute, replacing one of the same name
att(attrs, name, value) ==
  IF \E i \in 1..Len(attrs) : attrs[i].name = name
  THEN [i \in 1..Len(attrs) |->
          IF attrs[i].name = name THEN XAttr(name, value) ELSE attrs[i]]
  ELSE Append(attrs, XAttr(name, value))

\* the outcome of a sequence of calls made in order: the first throw, or all
\* the child nodes created
InOrder(results) ==
  IF \E i \in 1..Len(results) : results[i].threw
  THEN results[CHOOSE i \in 1..Len(results) :
                 /\ results[i].threw
                 /\ \A j \in 1..(i - 1) : ~results[j].threw]
  ELSE Built(<<>>, Flatten([i \in 1..Len(results) |-> results[i].kids]))

\* node.ele(name) followed by a call that fills the new node
Ele(name, filled) ==
  IF filled.threw THEN filled
  ELSE Built(<<>>, <<XElement(name, filled.attrs, filled.kids)>>)

RECURSIVE wildcardEntries(_, _, _, _)
RECURSIVE buildWildcardValue(_, _)
buildWildcardValue(value, o) ==
  IF isNullish(value) THEN Built(<<>>, <<>>)
  ELSE IF ~isObjectType(value) THEN Built(<<>>, <<XText(String(value))>>)
  ELSE IF isArray(value) THEN Built(<<>>, <<XText(JSONstringify(value))>>)
  ELSE wildcardEntries(value, 1, o, Built(<<>>, <<>>))

\* the loop over Object.entries(obj) of buildWildcardValue, from entry i on
wildcardEntries(obj, i, o, node) ==
  IF i > Len(obj.keys) THEN node
  ELSE
    LET key == obj.keys[i]
        val == obj.items[i]
        next ==
          IF isNullish(val) THEN node
          ELSE IF key = o.textNodeKey
          THEN Built(node.attrs, Append(node.kids, XText(String(val))))
          ELSE IF startsWith(key, o.attributePrefix)
          THEN Built(att(node.attrs,
                         SubSeq(key, Len(o.attributePrefix) + 1, Len(key)),
                         String(val)),
                     node.kids)
          ELSE IF isArray(val)
          THEN Built(node.attrs,
                     node.kids \o
                       [j \in 1..Len(val.items) |->
                          LET c == buildWildcardValue(val.items[j], o)
                          IN XElement(key, c.attrs, c.kids)])
          ELSE LET c == buildWildcardValue(val, o)
               IN Built(node.attrs, Append(node.kids, XElement(key, c.attrs, c.kids)))
    IN wildcardEntries(obj, i + 1, o, next)

\* a lookup that ignores case whatever the builder
lookupIgnoringCase(obj, name, ci) == lookupCI(obj, name)

\* obj[name] in builder.ts, lookupCI(obj, name) in the variant
lookup(obj, name, ci) == IF ci THEN lookupCI(obj, name) ELSE Get(obj, name)

RECURSIVE applyAttributesWithoutDefault(_, _, _, _, _)
\* an attribute loop that emits only the attributes the JSON object gives
applyAttributesWithoutDefault(attrDefs, i, obj, o, ci) ==
  IF i = 0 THEN <<>>
  ELSE
    LET before == applyAttributesWithoutDefault(attrDefs, i - 1, obj, o, ci)
        attrDef == attrDefs[i]
        attrValue == lookup(obj, o.attributePrefix \o attrDef.name, ci)
    IN IF ~isNullish(attrValue) THEN att(before, attrDef.name, String(attrValue))
       ELSE before

RECURSIVE applyAttributes(_, _, _, _, _)
\* the loop "Apply attributes" of buildElement over the first i attributes
applyAttributes(attrDefs, i, obj, o, ci) ==
  IF i = 0 THEN <<>>
  ELSE
    LET before == applyAttributes(attrDefs, i - 1, obj, o, ci)
        attrDef == attrDefs[i]
        attrValue == lookup(obj, o.attributePrefix \o attrDef.name, ci)
    IN IF ~isNullish(attrValue) THEN att(before, attrDef.name, String(attrValue))
       ELSE IF attrDef.hasDefault THEN att(before, attrDef.name, attrDef.default)
       ELSE before

\* a pass-through that emits nothing
wildcardChildrenDropped(obj, knownChildNames, o, ci) == <<>>

\* the loop "xs:any pass-through" of buildElement: the free child nodes
wildcardChildren(obj, knownChildNames, o, ci) ==
  Flatten([i \in 1..Len(obj.keys) |->
    LET key == obj.keys[i]
        wildcardValue == obj.items[i]
    IN IF key = o.textNodeKey THEN <<>>
       ELSE IF startsWith(key, o.attributePrefix) THEN <<>>
       ELSE IF (IF ci THEN toLowerCase(key) \in lowerSet(knownChildNames)
                      ELSE key \in knownChildNames) THEN <<>>
       ELSE IF isNullish(wildcardValue) THEN <<>>
       ELSE IF isArray(wildcardValue)
       THEN [j \in 1..Len(wildcardValue.items) |->
               LET c == buildWildcardValue(wildcardValue.items[j], o)
               IN XElement(key, c.attrs, c.kids)]
       ELSE LET c == buildWildcardValue(wildcardValue, o)
            IN <<XElement(key, c.attrs, c.kids)>>])

RECURSIVE buildElement(_, _, _, _, _, _)
\* the loop "Apply child elements" of buildElement
declaredChildren(m, resolvedChildren, obj, o, path, ci) ==
  InOrder([i \in 1..Len(resolvedChildren) |->
    LET childEl == resolvedChildren[i]
        childValue == lookup(obj, childEl.name, ci)
    IN IF isNullish(childValue) THEN Built(<<>>, <<>>)
       ELSE IF isArray(childValue)
       THEN InOrder([j \in 1..Len(childValue.items) |->
              Ele(childEl.name,
                  buildElement(m, childEl, childValue.items[j], o,
                    path \o "." \o childEl.name \o "[" \o ToString(j - 1) \o "]", ci))])
       ELSE Ele(childEl.name,
                buildElement(m, childEl, childValue, o, path \o "." \o childEl.name, ci))])

buildElement(m, el, value, o, path, ci) ==
  IF isArray(value) THEN Thrown(path)
  ELSE IF isNullish(value) THEN Built(<<>>, <<>>)
  ELSE IF ~hasComplexType(m, el) THEN Built(<<>>, <<XText(String(value))>>)
  ELSE IF ~isObjectType(value) THEN Built(<<>>, <<XText(String(value))>>)
  ELSE
    LET ct == resolveComplexTypeForElement(m, el)
        attrDefs == getAttributesForElement(m, el)
        attrs == applyAttributes(attrDefs, Len(attrDefs), value, o, ci)
        resolvedChildren == getChildElementsForElement(m, el)
        knownChildNames == {c.name : c \in Range(resolvedChildren)}
        declared == declaredChildren(m, resolvedChildren, value, o, path, ci)
    IN IF ct.hasTextContent /\ Get(value, o.textNodeKey).t # "undefined"
       THEN Built(attrs, <<XText(String(Get(value, o.textNodeKey)))>>)
       ELSE IF declared.threw THEN declared
       ELSE IF hasWildcardForElement(m, el)
       THEN Built(attrs, declared.kids \o wildcardChildren(value, knownChildNames, o, ci))
       ELSE Built(attrs, declared.kids)

\* a buildXml whose error for a root that is not declared carries no path
buildXmlRootErrorWithoutPath(m, js, o, ci) ==
  LET rootName == m.rootElement
  IN IF ~hasElement(m, rootName) THEN Thrown("")
     ELSE
       LET rootValue == IF lookup(js, rootName, ci).t # "undefined"
                        THEN lookup(js, rootName, ci) ELSE js
           filled == buildElement(m, lookupElement(m, rootName), rootValue, o,
                                  "$." \o rootName, ci)
           xmlns == IF m.targetNamespace # ""
                    THEN <<XAttr("xmlns", m.targetNamespace)>> ELSE <<>>
       IN IF filled.threw THEN filled
          ELSE Built(<<>>, <<XElement(rootName, xmlns \o filled.attrs, filled.kids)>>)

\* a buildXml that takes the whole JSON as the content of the root
buildXmlWholeJsonAsRoot(m, js, o, ci) ==
  LET rootName == m.rootElement
  IN IF ~hasElement(m, rootName) THEN Thrown("$")
     ELSE
       LET filled == buildElement(m, lookupElement(m, rootName), js, o,
                                  "$." \o rootName, ci)
           xmlns == IF m.targetNamespace # ""
                    THEN <<XAttr("xmlns", m.targetNamespace)>> ELSE <<>>
       IN IF filled.threw THEN filled
          ELSE Built(<<>>, <<XElement(rootName, xmlns \o filled.attrs, filled.kids)>>)

\* buildXml(json, walker, options): the XsdMappingError thrown, or the document
\* (its root node) handed to the serializer
buildXml(m, js, o, ci) ==
  LET rootName == m.rootElement
  IN IF ~hasElement(m, rootName) THEN Thrown("$")
     ELSE
       LET rootValue == IF lookup(js, rootName, ci).t # "undefined"
                        THEN lookup(js, rootName, ci) ELSE js
           filled == buildElement(m, lookupElement(m, rootName), rootValue, o,
                                  "$." \o rootName, ci)
           xmlns == IF m.targetNamespace # ""
                    THEN <<XAttr("xmlns", m.targetNamespace)>> ELSE <<>>
       IN IF filled.threw THEN filled
          ELSE Built(<<>>, <<XElement(rootName, xmlns \o filled.attrs, filled.kids)>>)

(***************************************************************************)
(* Models with generated extends graphs: NTypes named types T1..Tn, each   *)
(* extending nothing, any named type (itself included) or an unregistered  *)
(* type; one top-level element per type; the element T1 carries an inline  *)
(* complex type, which the parser names after the element (parseElement    *)
(* calls parseComplexType(inline, name)).                                  *)
(***************************************************************************)
TypeKey(i) == "T" \o ToString(i)

TypeKeys == {TypeKey(i) : i \in 1..NTypes}

TypeIndex(k) == CHOOSE i \in 1..NTypes : TypeKey(i) = k

ExtendsTargets == TypeKeys \cup {"", "Missing"}

OwnElements(i) ==
  [j \in 1..(i % 3) |->
     ElementDef("e" \o ToString(i) \o ToString(j), "xs:string", "", 1, Occurs(1))]

OwnAttributes(i) ==
  [j \in 1..((i + 1) % 2) |-> AttributeDef("a" \o ToString(i), "optional", FALSE, "")]

InlineKey == "inline:T1"

GraphModel(ext, inl, wild) ==
  SchemaModel(
    "T1",
    [n \in TypeKeys \cup {"elMissing"} |->
       IF n = "T1" THEN ElementDef("T1", "", InlineKey, 1, Occurs(1))
       ELSE IF n = "elMissing" THEN ElementDef(n, "Missing", "", 1, Occurs(1))
       ELSE ElementDef(n, n, "", 1, Occurs(1))],
    [k \in TypeKeys |->
       ComplexTypeDef(k, "sequence", OwnElements(TypeIndex(k)),
                      OwnAttributes(TypeIndex(k)), FALSE, ext[k], k = wild)],
    [k \in {InlineKey} |->
       ComplexTypeDef("T1", "sequence",
                      <<ElementDef("inl", "xs:string", "", 0, Occurs(1))>>,
                      <<>>, FALSE, inl, FALSE)],
    {"Code"}, "")

GraphModels ==
  {GraphModel(ext, inl, wild) :
     ext \in [TypeKeys -> ExtendsTargets], inl \in ExtendsTargets,
     wild \in {"", TypeKey(NTypes)}}

\* an element declared with type="k" and no inline type
ElementOfType(k) == ElementDef("x", k, "", 1, Occurs(1))

\* the elements a walker query can be made on: one per named type, one of an
\* unregistered type, and the element with the inline type
QueryElements ==
  {ElementOfType(k) : k \in TypeKeys \cup {"Missing"}}
    \cup {ElementDef("T1", "", InlineKey, 1, Occurs(1))}

(***************************************************************************)
(* Direct use of the SchemaWalker on a model.                              *)
(***************************************************************************)
NoQuery ==
  [asked |-> FALSE, el |-> ElementOfType(""), children |-> <<>>,
   attributes |-> <<>>, wildcard |-> FALSE,
   calls |-> <<>>, wildcardCalls |-> <<>>, visited |-> {},
   askedType |-> FALSE, typeName |-> "", simple |-> FALSE]

NoOutcome == [kind |-> "none", path |-> "", issues |-> <<>>, doc |-> <<>>]

NoOptions ==
  [strict |-> FALSE, rootElement |-> "", attributePrefix |-> "@", textNodeKey |-> "#text"]

InitWalker ==
  /\ schema \in GraphModels
  /\ walker = schema
  /\ json = <<>>
  /\ options = NoOptions
  /\ pc = "walker"
  /\ outcome = NoOutcome
  /\ calls = <<>>
  /\ lastQuery = NoQuery
  /\ ParserIdle

\* the calls a walk may be followed for
Fuel == NTypes + 4

\* one round of the three queries the builder and the validator make on an
\* element; each recursion starts with its own visited set, and calls,
\* wildcardCalls and visited record the walks made
WalkerQuery(el) ==
  /\ pc = "walker"
  /\ lastQuery' =
       IF ~hasComplexType(walker, el)
       THEN [NoQuery EXCEPT !.asked = TRUE, !.el = el]
       ELSE LET ct == resolveComplexTypeForElement(walker, el)
                visited == newSet(lastQuery.visited)
            IN [NoQuery EXCEPT
                  !.asked = TRUE, !.el = el,
                  !.children = resolveAllElements(walker, ct, visited),
                  !.attributes = resolveAllAttributes(walker, ct, visited),
                  !.wildcard = resolveHasWildcard(walker, ct, visited),
                  !.calls = resolveCalls(walker, ct, visited, Fuel),
                  !.wildcardCalls = wildcardCalls(walker, ct, visited, Fuel),
                  !.visited = visited \cup Range(resolveCalls(walker, ct, visited, Fuel))]
  /\ UNCHANGED <<schema, json, options, pc, walker, outcome, calls>>
  /\ UNCHANGED parserVars

\* the type names isSimpleType is asked about: none, built-in ones, the
\* registered simple type, registered complex types, an unregistered name and
\* a built-in name without its prefix
QueryTypeNames ==
  {"", "xs:string", "xs:anyType", "Code", "Missing", "string"} \cup TypeKeys

\* a call of isSimpleType
SimpleTypeQuery(typeName) ==
  /\ pc = "walker"
  /\ lastQuery' = [NoQuery EXCEPT !.askedType = TRUE, !.typeName = typeName,
                                  !.simple = isSimpleType(walker, typeName)]
  /\ UNCHANGED <<schema, json, options, pc, walker, outcome, calls>>
  /\ UNCHANGED parserVars

NextWalker ==
  \/ \E el \in QueryElements : WalkerQuery(el)
  \/ \E typeName \in QueryTypeNames : SimpleTypeQuery(typeName)

SpecWalker == InitWalker /\ [][NextWalker]_vars

(***************************************************************************)
(* convertJsonToXml (src/src/converter.ts), after parseXsd has returned    *)
(* rawModel: the choice of the root element, the optional strict           *)
(* validation and the build, one step each.                                *)
(***************************************************************************)
\* lines 103-120: the model the walker wraps
selectRoot(rawModel, js, rootElementOverride) ==
  IF rootElementOverride # "" /\ hasElement(rawModel, rootElementOverride)
  THEN IF rootElementOverride # rawModel.rootElement
       THEN [rawModel EXCEPT !.rootElement = rootElementOverride]
       ELSE rawModel
  ELSE IF /\ Len(js.keys) = 1
          /\ hasElement(rawModel, js.keys[1])
          /\ js.keys[1] # rawModel.rootElement
       THEN [rawModel EXCEPT !.rootElement = js.keys[1]]
       ELSE rawModel

\* a strict step that lets the conversion go on whatever validateJson finds
strictOutcomeNeverThrows(m, js, o) == NoOutcome

\* what validateJson does when called with strict: throw or return
strictOutcome(m, js, o) ==
  LET issues == validateJson(m, js, o)
  IN IF issues # <<>>
     THEN [kind |-> "XsdValidationError", path |-> "", issues |-> issues, doc |-> <<>>]
     ELSE NoOutcome

\* what the call of buildXml gives convertJsonToXml: the document or the throw
buildOutcome(m, js, o) ==
  LET built == buildXml(m, js, o, FALSE)
  IN IF built.threw
     THEN [kind |-> "XsdMappingError", path |-> built.path, issues |-> <<>>, doc |-> <<>>]
     ELSE [kind |-> "xml", path |-> "", issues |-> <<>>, doc |-> built.kids]

\* lines 85-136: the whole call on a parsed model, as one result
convertJsonToXml(rawModel, js, o) ==
  LET w == selectRoot(rawModel, js, o.rootElement)
      checked == IF o.strict THEN strictOutcome(w, js, o) ELSE NoOutcome
  IN IF checked.kind = "XsdValidationError" THEN checked ELSE buildOutcome(w, js, o)

\* rawModel.rootElement = ... in place of the copy: the object parseXsd
\* returned is the one selected
assignedInPlace(rawModel, selected) == selected

\* { ...rawModel, rootElement: ... } (lines 111, 119): rawModel after the
\* spread into a new object, which does not write to it
spreadFrom(rawModel, selected) == rawModel

\* lines 103-122
ResolveRoot ==
  /\ pc = "parsed"
  /\ walker' = selectRoot(schema, json, options.rootElement)
  /\ schema' = spreadFrom(schema, selectRoot(schema, json, options.rootElement))
  /\ pc' = "ready"
  /\ UNCHANGED <<json, options, outcome, calls, lastQuery>>
  /\ UNCHANGED parserVars

\* lines 124-126
StrictValidate ==
  /\ pc = "ready"
  /\ options.strict
  /\ calls' = Append(calls, "validateJson")
  /\ outcome' = strictOutcome(walker, json, options)
  /\ pc' = IF outcome'.kind = "XsdValidationError" THEN "failed" ELSE "validated"
  /\ UNCHANGED <<schema, json, options, walker, lastQuery>>
  /\ UNCHANGED parserVars

\* lines 128-135
Build ==
  /\ pc = (IF options.strict THEN "validated" ELSE "ready")
  /\ calls' = Append(calls, "buildXml")
  /\ outcome' = buildOutcome(walker, json, options)
  /\ pc' = IF outcome'.kind = "xml" THEN "done" ELSE "failed"
  /\ UNCHANGED <<schema, json, options, walker, lastQuery>>
  /\ UNCHANGED parserVars

Next == ResolveRoot \/ StrictValidate \/ Build

(***************************************************************************)
(* The schema models and the JSON inputs of the conversions.               *)
(***************************************************************************)
\* the model of a schema with four top-level elements:
\*   person    PersonT: required attribute id, attribute lang with a default,
\*             required child name, repeatable child tag
\*   holder    HolderT: child who and repeatable child list, both of ChoiceT,
\*             an xs:choice of CNPJ, CPF, cod
\*   envelope  EnvT, which extends BaseT; BaseT declares xs:any, the
\*             required attribute versao and the required child cabecalho
\*   Clash     an inline complex type (named Clash by the parser) extending
\*             the named type Clash, which extends BaseT
\*   roster    RosterT: required repeatable child member
MainModel ==
  SchemaModel(
    "person",
    [n \in {"person", "holder", "envelope", "Clash", "tag", "roster"} |->
       CASE n = "person" -> ElementDef(n, "PersonT", "", 1, Occurs(1))
         [] n = "roster" -> ElementDef(n, "RosterT", "", 1, Occurs(1))
         [] n = "tag" -> ElementDef(n, "xs:string", "", 1, Occurs(1))
         [] n = "holder" -> ElementDef(n, "HolderT", "", 1, Occurs(1))
         [] n = "envelope" -> ElementDef(n, "EnvT", "", 1, Occurs(1))
         [] n = "Clash" -> ElementDef(n, "", "inline:Clash", 1, Occurs(1))],
    [k \in {"PersonT", "HolderT", "ChoiceT", "BaseT", "EnvT", "Clash", "RosterT"} |->
       CASE k = "RosterT" ->
              ComplexTypeDef(k, "sequence",
                <<ElementDef("member", "xs:string", "", 1, Unbounded)>>,
                <<>>, FALSE, "", FALSE)
         [] k = "PersonT" ->
              ComplexTypeDef(k, "sequence",
                <<ElementDef("name", "xs:string", "", 1, Occurs(1)),
                  ElementDef("tag", "xs:string", "", 0, Unbounded)>>,
                <<AttributeDef("id", "required", FALSE, ""),
                  AttributeDef("lang", "optional", TRUE, "en")>>,
                FALSE, "", FALSE)
         [] k = "HolderT" ->
              ComplexTypeDef(k, "sequence",
                <<ElementDef("who", "ChoiceT", "", 0, Occurs(1)),
                  ElementDef("list", "ChoiceT", "", 0, Unbounded)>>,
                <<>>, FALSE, "", FALSE)
         [] k = "ChoiceT" ->
              ComplexTypeDef(k, "choice",
                <<ElementDef("CNPJ", "xs:string", "", 0, Occurs(1)),
                  ElementDef("CPF", "xs:string", "", 0, Occurs(1)),
                  ElementDef("cod", "xs:string", "", 0, Occurs(1))>>,
                <<>>, FALSE, "", FALSE)
         [] k = "BaseT" ->
              ComplexTypeDef(k, "sequence",
                <<ElementDef("cabecalho", "xs:string", "", 1, Occurs(1))>>,
                <<AttributeDef("versao", "required", FALSE, "")>>,
                FALSE, "", TRUE)
         [] k = "EnvT" ->
              ComplexTypeDef(k, "sequence",
                <<ElementDef("corpo", "xs:string", "", 0, Occurs(1))>>,
                <<>>, FALSE, "BaseT", FALSE)
         [] k = "Clash" ->
              ComplexTypeDef(k, "sequence",
                <<ElementDef("mid", "xs:string", "", 0, Occurs(1))>>,
                <<>>, FALSE, "BaseT", FALSE)],
    [k \in {"inline:Clash"} |->
       ComplexTypeDef("Clash", "sequence",
         <<ElementDef("own", "xs:string", "", 0, Occurs(1))>>,
         <<>>, FALSE, "Clash", FALSE)],
    {}, "")

\* the model of a type-library schema: types but no top-level element
LibraryModel ==
  SchemaModel(
    "", EmptyMap,
    [k \in {"LibT"} |->
       ComplexTypeDef(k, "sequence",
         <<ElementDef("field", "xs:string", "", 1, Occurs(1))>>, <<>>, FALSE, "", FALSE)],
    EmptyMap, {}, "")

\* a key of a generated object with the values it takes when present
K(key, menu) == [key |-> key, menu |-> menu]

RECURSIVE EntriesOver(_)
EntriesOver(spec) ==
  IF spec = <<>> THEN {[keys |-> <<>>, items |-> <<>>]}
  ELSE LET rest == EntriesOver(Tail(spec))
       IN rest \cup {[keys |-> <<Head(spec).key>> \o r.keys, items |-> <<v>> \o r.items] :
                       v \in Head(spec).menu, r \in rest}

\* the objects holding any of the keys of spec, in this order, with a value of its menu
ObjectsOver(spec) == {JObj(e.keys, e.items) : e \in EntriesOver(spec)}

\* the arrays of at most MaxItems items of S
ArraysOf(S) == {JArr(f) : f \in UNION {[1..n -> S] : n \in 0..MaxItems}}

RootSpecials == {JNull, JStr("r")} \cup ArraysOf({JStr("a")})

PersonContents ==
  ObjectsOver(<<K("@id", {JNull, JStr("7")}),
                K("@lang", {JStr("pt")}),
                K("name", {JNull, JStr("n"), JNum(5), JObj(<<>>, <<>>)} \cup ArraysOf({JStr("n")})),
                K("tag", {JStr("t")} \cup ArraysOf({JNull, JStr("t")})),
                K("zz", {JStr("u")}),
                K("yy", {JNull}),
                K("_id", {JStr("9")})>>)

ChoiceObjects ==
  ObjectsOver(<<K("cnpj", {JStr("2")}),
                K("CNPJ", {JNull, JStr("1")}),
                K("CPF", {JNull, JStr("3")}),
                K("cod", {JNull, JStr("4")} \cup ArraysOf({JStr("4")}))>>)

OneChoice == JObj(<<"CNPJ">>, <<JStr("1")>>)

HolderContents ==
  ObjectsOver(<<K("who", {JNull, JStr("s")} \cup ChoiceObjects),
                K("list", ArraysOf({JNull, OneChoice, JArr(<<OneChoice>>)}))>>)

FreeObject ==
  JObj(<<"campo", "@at", "#text", "nada", "lista">>,
       <<JStr("a"), JStr("x"), JStr("t"), JNull, JArr(<<JStr("b"), JNull>>)>>)

EnvelopeContents ==
  ObjectsOver(<<K("payload", {JNull, JStr("free"), FreeObject}),
                K("@versao", {JStr("1.0")}),
                K("cabecalho", {JNull, JStr("v1")}),
                K("item", ArraysOf({JNull, JStr("x"), JArr(<<JStr("y")>>)})),
                K("#text", {JStr("txt")}),
                K("@extra", {JStr("e")})>>)

ClashContents ==
  ObjectsOver(<<K("free", {JStr("f")}),
                K("own", {JStr("o")}),
                K("mid", {JStr("m")}),
                K("cabecalho", {JStr("v1")})>>)

RosterContents == ObjectsOver(<<K("member", ArraysOf({JStr("m")}))>>)

LibraryContents == ObjectsOver(<<K("qualquerCoisa", {JStr("valor")})>>)

\* the elements conversions are run for; "" stands for the type library,
\* which has none
ScenarioElements == {"person", "holder", "envelope", "Clash", "roster", ""}

\* the parsed model of the conversions run for element
ModelFor(element) == IF element = "" THEN LibraryModel ELSE MainModel

\* the contents given for element
ContentsFor(element) ==
  CASE element = "person" -> PersonContents \cup RootSpecials
    [] element = "holder" -> HolderContents \cup RootSpecials
    [] element = "envelope" -> EnvelopeContents \cup RootSpecials
    [] element = "Clash" -> ClashContents
    [] element = "roster" -> RosterContents
    [] OTHER -> LibraryContents

\* a rootElement option naming no element of the schema
AbsentRoot == "ghost"

\* the two documented input forms: one key naming the root element, or the
\* fields of the root themselves (with the root named by the rootElement
\* option unless it is the schema's own); and both with a rootElement
\* option that names no element of the schema
Inputs(element, content) ==
  {[json |-> JObj(<<element>>, <<content>>), rootElement |-> r] :
     r \in IF element # "" THEN {"", AbsentRoot} ELSE {}}
    \cup {[json |-> content, rootElement |-> r] :
            r \in IF content.t = "object"
                  THEN {IF element = ModelFor(element).rootElement THEN "" ELSE element,
                        AbsentRoot}
                  ELSE {}}

\* the attributePrefix option: the default, and for person a custom one too
PrefixesFor(element) == IF element = "person" THEN {"@", "_"} ELSE {"@"}

Init ==
  \E element \in ScenarioElements : \E content \in ContentsFor(element) :
    \E in \in Inputs(element, content) : \E strict \in BOOLEAN :
     \E prefix \in PrefixesFor(element) :
      /\ schema = ModelFor(element)
      /\ json = in.json
      /\ options = [strict |-> strict, rootElement |-> in.rootElement,
                    attributePrefix |-> prefix, textNodeKey |-> "#text"]
      /\ pc = "parsed"
      /\ walker = ModelFor(element)
      /\ outcome = NoOutcome
      /\ calls = <<>>
      /\ lastQuery = NoQuery
      /\ ParserIdle

Spec == Init /\ [][Next]_vars

(***************************************************************************)
(* What the claims speak of, read off the state of a conversion.           *)
(***************************************************************************)
RootName == walker.rootElement
RootDeclared == hasElement(walker, RootName)
RootEl == lookupElement(walker, RootName)
\* the value given for the root: json[rootName] when defined, else json
RootValue == IF Get(json, RootName).t # "undefined" THEN Get(json, RootName) ELSE json
RootPath == "$." \o RootName

ValidateRan == \E i \in 1..Len(calls) : calls[i] = "validateJson"
BuildRan == \E i \in 1..Len(calls) : calls[i] = "buildXml"
Ended == pc \in {"done", "failed"}

\* the root node of the document produced
XmlRoot == outcome.doc[1]
ElementsOf(node) == SelectSeq(node.kids, LAMBDA k : k.kind = "element")
ElementsNamed(node, name) ==
  SelectSeq(node.kids, LAMBDA k : k.kind = "element" /\ k.name = name)
NamesOf(nodes) == [i \in 1..Len(nodes) |-> nodes[i].name]
NonNullItems(arr) == SelectSeq(arr.items, LAMBDA v : ~isNullish(v))

\* a root object given for a root element of a complex type
RootIsObjectOfComplexType ==
  /\ RootDeclared
  /\ hasComplexType(walker, RootEl)
  /\ RootValue.t = "object"

RECURSIVE AncestorKeys(_, _, _)
\* the keys of the complex types reached from key by following extends
AncestorKeys(m, key, seen) ==
  IF key = "" \/ key \notin DOMAIN m.complexTypes \/ key \in seen THEN seen
  ELSE AncestorKeys(m, m.complexTypes[key].extends, seen \cup {key})

\* the type of el or one of its ancestors by extends declares xs:any
ChainDeclaresWildcard(m, el) ==
  LET ct == resolveComplexTypeForElement(m, el)
  IN \/ ct.hasWildcard
     \/ \E k \in AncestorKeys(m, ct.extends, {}) : m.complexTypes[k].hasWildcard

(***************************************************************************)
(* C1                                                                      *)
(***************************************************************************)
\* C1: with strict = true validateJson has run before buildXml starts, and
\* when it finds an issue the conversion ends with XsdValidationError, no XML
\* and no call of buildXml; with strict = false validateJson is never called
\* and no XsdValidationError occurs.
C1_StrictValidatesBeforeBuild ==
  /\ options.strict =>
       /\ \A i \in 1..Len(calls) :
            calls[i] = "buildXml" =>
              /\ \E j \in 1..(i - 1) : calls[j] = "validateJson"
              /\ validateJson(walker, json, options) = <<>>
       /\ (pc \notin {"parsed", "ready"} /\ validateJson(walker, json, options) # <<>>) =>
            /\ pc = "failed"
            /\ outcome.kind = "XsdValidationError"
            /\ outcome.doc = <<>>
            /\ ~BuildRan
  /\ ~options.strict =>
       /\ ~ValidateRan
       /\ outcome.kind # "XsdValidationError"

\* a strict conversion stopped by the validation of an input from which
\* buildXml would have produced a document
C1_Witness ==
  /\ options.strict
  /\ outcome.kind = "XsdValidationError"
  /\ calls = <<"validateJson">>
  /\ ~buildXml(walker, json, options, FALSE).threw

(***************************************************************************)
(* C2                                                                      *)
(***************************************************************************)
\* the paths of the violations of the object obj given for el at path, each
\* stated on its own: a required attribute without a key, a required child
\* that is null or absent, an array given for a child that is not repeatable,
\* an object given for a child of a simple type, a key that is not declared
\* when no wildcard accepts it
ViolationPaths(m, el, obj, path, o) ==
  LET attrDefs == Range(getAttributesForElement(m, el))
      children == Range(getChildElementsForElement(m, el))
  IN {path \o "." \o o.attributePrefix \o a.name :
        a \in {x \in attrDefs :
                 x.use = "required" /\ ~hasOwnProperty(obj, o.attributePrefix \o x.name)}}
     \cup {path \o "." \o c.name :
             c \in {x \in children :
                      \/ x.minOccurs > 0 /\ isNullish(Get(obj, x.name))
                      \/ isArray(Get(obj, x.name)) /\ ~x.isArray
                      \/ ~hasComplexType(m, x) /\ Get(obj, x.name).t = "object"}}
     \cup {path \o "." \o k :
             k \in {x \in Range(obj.keys) :
                      /\ x # o.textNodeKey
                      /\ x \notin {c.name : c \in children}
                      /\ x \notin {o.attributePrefix \o a.name : a \in attrDefs}
                      /\ ~hasWildcardForElement(m, el)}}

\* every child of el is of a simple type and no item of an array given for
\* one is an object: the violations of obj are then all of ViolationPaths
OnlySimpleChildren(m, el, obj) ==
  \A c \in Range(getChildElementsForElement(m, el)) :
    /\ ~hasComplexType(m, c)
    /\ isArray(Get(obj, c.name)) => \A v \in Range(Get(obj, c.name).items) : ~isObjectType(v)

IssuesAt(path) == SelectSeq(outcome.issues, LAMBDA issue : issue.path = path)

\* C2: validateJson goes through the whole value; the one XsdValidationError
\* it throws lists every violation once (the missing required attribute and
\* the missing required child of one object both), and it returns normally
\* exactly when there is no violation.
C2_AllViolationsReported ==
  (ValidateRan /\ ~BuildRan) =>
    /\ outcome.kind \in {"XsdValidationError", "none"}
    /\ (outcome.kind = "XsdValidationError") <=> (outcome.issues # <<>>)
    /\ (outcome.kind = "none") <=> (pc = "validated")
    /\ \A i \in 1..Len(outcome.issues) :
         outcome.issues[i].path # "" /\ outcome.issues[i].message # ""
    /\ RootIsObjectOfComplexType =>
         LET expected == ViolationPaths(walker, RootEl, RootValue, RootPath, options)
         IN /\ \A p \in expected : Len(IssuesAt(p)) = 1
            /\ OnlySimpleChildren(walker, RootEl, RootValue) =>
                 /\ Len(outcome.issues) = Cardinality(expected)
                 /\ (pc = "validated") <=> (expected = {})

\* an object without its required attribute, without its required child and
\* with an undeclared key: three issues in the one error
C2_Witness ==
  /\ ValidateRan
  /\ outcome.kind = "XsdValidationError"
  /\ RootName = "person"
  /\ Len(IssuesAt("$.person.@id")) = 1
  /\ Len(IssuesAt("$.person.name")) = 1
  /\ Len(IssuesAt("$.person.zz")) = 1
  /\ Len(outcome.issues) = 3

(***************************************************************************)
(* C3                                                                      *)
(***************************************************************************)
RECURSIVE ChainIsAcyclic(_, _, _)
\* following extends from key never comes back to a type already passed
ChainIsAcyclic(m, key, seen) ==
  IF key = "" \/ key \notin DOMAIN m.complexTypes THEN TRUE
  ELSE IF key \in seen THEN FALSE
  ELSE ChainIsAcyclic(m, m.complexTypes[key].extends, seen \cup {key})

\* the element queried has a complex type T with extends = B
QueriedTypeExtends ==
  /\ lastQuery.asked
  /\ hasComplexType(walker, lastQuery.el)
  /\ resolveComplexTypeForElement(walker, lastQuery.el).extends # ""

\* the type queried is on no cycle of extends
QueriedChainIsAcyclic ==
  IF lastQuery.el.inline # ""
  THEN ChainIsAcyclic(walker, resolveComplexTypeForElement(walker, lastQuery.el).extends, {})
  ELSE ChainIsAcyclic(walker, lastQuery.el.typeName, {})

\* C3: for every complex type T with extends = B, the children resolved for an
\* element of type T are the children resolved for an element of type B
\* followed by T.elements, nothing added and nothing lost.  Stated for the
\* extends graphs without a cycle: on a cycle whose types declare elements no
\* list satisfies the equation.
C3_ChildrenAreBaseThenOwn ==
  LET T == resolveComplexTypeForElement(walker, lastQuery.el)
      ofBase == getChildElementsForElement(walker, ElementOfType(T.extends))
  IN (QueriedTypeExtends /\ QueriedChainIsAcyclic) =>
       /\ lastQuery.children = ofBase \o T.elements
       /\ Len(lastQuery.children) = Len(ofBase) + Len(T.elements)

\* the inline type of element T1, named T1 by the parser, extends the named
\* type T1, which extends a type with elements of its own
C3_Witness ==
  LET T == resolveComplexTypeForElement(walker, lastQuery.el)
  IN /\ QueriedTypeExtends
     /\ QueriedChainIsAcyclic
     /\ lastQuery.el.inline # ""
     /\ T.extends = T.name
     /\ walker.complexTypes[T.extends].extends \in DOMAIN walker.complexTypes
     /\ walker.complexTypes[walker.complexTypes[T.extends].extends].elements # <<>>

(***************************************************************************)
(* C4                                                                      *)
(***************************************************************************)
ChoiceBranches == <<"CNPJ", "CPF", "cod">>
\* the branches of the choice that obj gives a value other than null
NonNullBranches(obj) ==
  SelectSeq(ChoiceBranches, LAMBDA b : ~isNullish(Get(obj, b)))

\* what C4 asks of the node emitted for the object obj given for an element
\* of the choice type: the one branch with its value, or nothing
ChoiceNodeIsRight(obj, node) ==
  LET given == NonNullBranches(obj)
  IN /\ given = <<>> => node.kids = <<>>
     /\ (Len(given) = 1 /\ ~isObjectType(Get(obj, given[1]))) =>
          node.kids = <<XElement(given[1], <<>>, <<XText(String(Get(obj, given[1])))>>)>>

\* C4: for an element of a choice type (who, and each item of list, in
\* holder): with one branch given, exactly that branch element with its value
\* is emitted; with every branch null, the element is emitted empty; with the
\* element's own value null, no element is emitted for it.
C4_ChoiceSemantics ==
  (BuildRan /\ outcome.kind = "xml" /\ RootName = "holder" /\ RootValue.t = "object") =>
    LET who == Get(RootValue, "who")
        list == Get(RootValue, "list")
        whoNodes == ElementsNamed(XmlRoot, "who")
        listNodes == ElementsNamed(XmlRoot, "list")
    IN /\ isNullish(who) => whoNodes = <<>>
       /\ who.t = "object" => Len(whoNodes) = 1 /\ ChoiceNodeIsRight(who, whoNodes[1])
       /\ isNullish(list) => listNodes = <<>>
       /\ isArray(list) =>
            /\ Len(listNodes) = Len(NonNullItems(list))
            /\ \A i \in 1..Len(listNodes) :
                 NonNullItems(list)[i].t = "object" =>
                   ChoiceNodeIsRight(NonNullItems(list)[i], listNodes[i])

\* C4 for the element who alone, a declared child that is not repeatable
C4_ChoiceOfSingleChild ==
  (BuildRan /\ outcome.kind = "xml" /\ RootName = "holder" /\ RootValue.t = "object") =>
    LET who == Get(RootValue, "who")
        whoNodes == ElementsNamed(XmlRoot, "who")
    IN /\ isNullish(who) => whoNodes = <<>>
       /\ who.t = "object" => Len(whoNodes) = 1 /\ ChoiceNodeIsRight(who, whoNodes[1])

(***************************************************************************)
(* C5                                                                      *)
(***************************************************************************)
\* C5: buildXml emits no element for a value that is null or absent: not for
\* the root value, a declared child, an item of the array given for a
\* declared child, a wildcard child or an item of its array.
C5_NoElementForNull ==
  (BuildRan /\ outcome.kind = "xml") =>
    /\ isNullish(RootValue) => outcome.doc = <<>>
    /\ RootIsObjectOfComplexType =>
         /\ \A c \in Range(getChildElementsForElement(walker, RootEl)) :
              LET v == Get(RootValue, c.name)
              IN /\ isNullish(v) => ElementsNamed(XmlRoot, c.name) = <<>>
                 /\ isArray(v) => Len(ElementsNamed(XmlRoot, c.name)) = Len(NonNullItems(v))
         /\ hasWildcardForElement(walker, RootEl) =>
              \A i \in 1..Len(RootValue.keys) :
                LET key == RootValue.keys[i]
                    v == RootValue.items[i]
                IN /\ isNullish(v) => ElementsNamed(XmlRoot, key) = <<>>
                   /\ (isArray(v) /\ key # options.textNodeKey
                         /\ ~startsWith(key, options.attributePrefix)) =>
                        Len(ElementsNamed(XmlRoot, key)) = Len(NonNullItems(v))

(***************************************************************************)
(* C6                                                                      *)
(***************************************************************************)
\* C6: an array met by buildXml where the ElementDef has isArray = false (the
\* root, a declared child with maxOccurs = 1) ends the conversion with
\* XsdMappingError at the path of that position; only an array given for an
\* ElementDef with isArray = true is expanded.
C6_ArrayNeedsMultiplicity ==
  BuildRan =>
    /\ (RootDeclared /\ isArray(RootValue)) =>
         outcome.kind = "XsdMappingError" /\ outcome.path = RootPath
    /\ RootIsObjectOfComplexType =>
         \A c \in Range(getChildElementsForElement(walker, RootEl)) :
           (isArray(Get(RootValue, c.name)) /\ ~c.isArray) =>
             /\ outcome.kind = "XsdMappingError"
             /\ outcome.path = RootPath \o "." \o c.name

(***************************************************************************)
(* C7                                                                      *)
(***************************************************************************)
\* C7 as stated: when the resolved root name is no key of the model's
\* elements, the conversion ends with XsdMappingError at path '$' and no XML,
\* with strict on or off.
C7_Original ==
  (Ended /\ ~RootDeclared) =>
    /\ outcome.kind = "XsdMappingError"
    /\ outcome.path = "$"
    /\ outcome.doc = <<>>

\* C7 as amended: when the resolved root name is no key of the model's
\* elements, the conversion ends without XML; with strict off it ends with
\* XsdMappingError at path '$', with strict on with the XsdValidationError of
\* validateJson, whose only issue is at path '$', buildXml not being called.
C7_Amended ==
  /\ (pc \notin {"parsed", "ready"} /\ ~RootDeclared) => Ended
  /\ (Ended /\ ~RootDeclared) =>
       /\ pc = "failed"
       /\ outcome.doc = <<>>
       /\ ~options.strict =>
            /\ outcome.kind = "XsdMappingError"
            /\ outcome.path = "$"
       /\ options.strict =>
            /\ outcome.kind = "XsdValidationError"
            /\ Len(outcome.issues) = 1
            /\ outcome.issues[1].path = "$"
            /\ ~BuildRan

\* a strict conversion against the type library, ended by validateJson
C7_Witness ==
  /\ Ended
  /\ ~RootDeclared
  /\ walker.rootElement = ""
  /\ options.strict
  /\ outcome.kind = "XsdValidationError"

(***************************************************************************)
(* C8                                                                      *)
(***************************************************************************)
\* C8: a declared child is looked up in the JSON object ignoring case (the
\* exact key first, otherwise the first key equal ignoring case) and emitted
\* under the schema's name: for the object given for who, a scalar found for
\* a branch in this way is emitted as that branch element.
C8_CaseInsensitiveLookup ==
  (BuildRan /\ outcome.kind = "xml" /\ RootName = "holder" /\ RootValue.t = "object"
     /\ Get(RootValue, "who").t = "object") =>
    LET who == Get(RootValue, "who")
        whoNode == ElementsNamed(XmlRoot, "who")[1]
    IN \A i \in 1..Len(ChoiceBranches) :
         LET found == lookupCI(who, ChoiceBranches[i])
         IN (~isNullish(found) /\ ~isObjectType(found)) =>
              ElementsNamed(whoNode, ChoiceBranches[i])
                = <<XElement(ChoiceBranches[i], <<>>, <<XText(String(found))>>)>>

(***************************************************************************)
(* C9                                                                      *)
(***************************************************************************)
\* the keys of obj that are no declared child of el, no declared attribute
\* with the prefix and not the text-node key
ExtraKeys(m, el, obj, o) ==
  {k \in Range(obj.keys) :
     /\ k # o.textNodeKey
     /\ k \notin {c.name : c \in Range(getChildElementsForElement(m, el))}
     /\ k \notin {o.attributePrefix \o a.name : a \in Range(getAttributesForElement(m, el))}}

\* the 'Unknown property' issues reported for the keys of the root object
UnknownPropertyIssuesAtRoot ==
  SelectSeq(outcome.issues,
    LAMBDA issue :
      /\ startsWith(issue.message, "Unknown property")
      /\ \E k \in Range(RootValue.keys) : issue.path = RootPath \o "." \o k)

\* C9: validateJson reports no 'Unknown property' for an object given for an
\* element whose type or an ancestor by extends declares a wildcard, and
\* exactly one per extra key for an element whose type chain declares none.
C9_WildcardAcceptsExtraKeys ==
  (ValidateRan /\ ~BuildRan /\ RootIsObjectOfComplexType) =>
    LET extra == ExtraKeys(walker, RootEl, RootValue, options)
    IN IF ChainDeclaresWildcard(walker, RootEl)
       THEN UnknownPropertyIssuesAtRoot = <<>>
       ELSE /\ Len(UnknownPropertyIssuesAtRoot) = Cardinality(extra)
            /\ \A k \in extra :
                 \E i \in 1..Len(UnknownPropertyIssuesAtRoot) :
                   UnknownPropertyIssuesAtRoot[i].path = RootPath \o "." \o k

(***************************************************************************)
(* C10                                                                     *)
(***************************************************************************)
RECURSIVE FreeNames(_, _, _, _)
\* the names C10 expects as free children for the keys of obj from i on: one
\* per key that is not the text-node key, has not the attribute prefix, is no
\* declared child and has a value other than null, and one per item for an array
FreeNames(obj, i, declared, o) ==
  IF i > Len(obj.keys) THEN <<>>
  ELSE LET key == obj.keys[i]
           v == obj.items[i]
           here == IF \/ key = o.textNodeKey
                      \/ startsWith(key, o.attributePrefix)
                      \/ key \in declared
                      \/ isNullish(v)
                   THEN <<>>
                   ELSE IF isArray(v) THEN [j \in 1..Len(v.items) |-> key]
                   ELSE <<key>>
       IN here \o FreeNames(obj, i + 1, declared, o)

\* C10: for an element whose type or an ancestor declares a wildcard, the
\* free children emitted are those of the keys that are not the text-node
\* key, have not the attribute prefix, are no declared child and are not null,
\* one per array item, all after the declared children; for an element whose
\* type chain declares no wildcard only declared children are emitted.
C10_WildcardPassThrough ==
  (BuildRan /\ outcome.kind = "xml" /\ RootIsObjectOfComplexType) =>
    LET declared == {c.name : c \in Range(getChildElementsForElement(walker, RootEl))}
        names == NamesOf(ElementsOf(XmlRoot))
        free == SelectSeq(names, LAMBDA n : n \notin declared)
    IN /\ \A i, j \in 1..Len(names) :
            (i < j /\ names[i] \notin declared) => names[j] \notin declared
       /\ free = IF ChainDeclaresWildcard(walker, RootEl)
                 THEN FreeNames(RootValue, 1, declared, options)
                 ELSE <<>>

(***************************************************************************)
(* C11                                                                     *)
(***************************************************************************)
AttributesNamed(node, name) == SelectSeq(node.attrs, LAMBDA x : x.name = name)

\* C11: for every attribute the walker resolves for the element (inherited
\* ones included) and every object given for it, the attribute is emitted
\* with the value of the key attributePrefix + name when that is present and
\* not null, otherwise with the declared default, otherwise not at all; a key
\* with the prefix that names no schema attribute is emitted neither as an
\* attribute nor as an element.
C11_AttributesFromJsonOrDefault ==
  (BuildRan /\ outcome.kind = "xml" /\ RootIsObjectOfComplexType) =>
    LET attrDefs == Range(getAttributesForElement(walker, RootEl))
    IN /\ \A a \in attrDefs :
            LET v == Get(RootValue, options.attributePrefix \o a.name)
            IN AttributesNamed(XmlRoot, a.name) =
                 IF ~isNullish(v) THEN <<XAttr(a.name, String(v))>>
                 ELSE IF a.hasDefault THEN <<XAttr(a.name, a.default)>>
                 ELSE <<>>
       /\ \A i \in 1..Len(XmlRoot.attrs) : XmlRoot.attrs[i].name \in {a.name : a \in attrDefs}
       /\ \A k \in Range(RootValue.keys) :
            startsWith(k, options.attributePrefix) => ElementsNamed(XmlRoot, k) = <<>>

\* an inherited attribute given by the JSON beside a prefixed key that names
\* no attribute, on an element that passes undeclared keys through
C11_Witness ==
  /\ BuildRan
  /\ outcome.kind = "xml"
  /\ RootName = "envelope"
  /\ RootValue.t = "object"
  /\ hasOwnProperty(RootValue, "@extra")
  /\ hasOwnProperty(RootValue, "payload")
  /\ XmlRoot.attrs = <<XAttr("versao", "1.0")>>

(***************************************************************************)
(* C12                                                                     *)
(***************************************************************************)
\* the issues at path that report a missing required value
MissingIssuesAt(path) ==
  SelectSeq(outcome.issues,
    LAMBDA issue : issue.path = path /\ startsWith(issue.message, "Required"))

\* C12: validateJson reports one issue at parent.child for every resolved
\* child with minOccurs > 0 whose value is null or absent and one at
\* parent.<prefix>attr for every resolved attribute with use = required whose
\* key is missing; no such issue for a child with minOccurs = 0, for a child
\* that is given, for an attribute of another use or for one that is given.
C12_RequiredValuesReported ==
  (ValidateRan /\ ~BuildRan /\ RootIsObjectOfComplexType) =>
    /\ \A c \in Range(getChildElementsForElement(walker, RootEl)) :
         Len(MissingIssuesAt(RootPath \o "." \o c.name)) =
           IF c.minOccurs > 0 /\ isNullish(Get(RootValue, c.name)) THEN 1 ELSE 0
    /\ \A a \in Range(getAttributesForElement(walker, RootEl)) :
         Len(MissingIssuesAt(RootPath \o "." \o options.attributePrefix \o a.name)) =
           IF a.use = "required"
              /\ ~hasOwnProperty(RootValue, options.attributePrefix \o a.name)
           THEN 1 ELSE 0

\* an object without the required attribute and the required child that its
\* element inherits, and without its optional child
C12_Witness ==
  /\ ValidateRan
  /\ RootName = "envelope"
  /\ RootValue.t = "object"
  /\ ~hasOwnProperty(RootValue, "corpo")
  /\ Len(MissingIssuesAt("$.envelope.@versao")) = 1
  /\ Len(MissingIssuesAt("$.envelope.cabecalho")) = 1
  /\ Len(outcome.issues) = 2

(***************************************************************************)
(* C13                                                                     *)
(***************************************************************************)
RECURSIVE JoinText(_)
\* the text of a sequence of nodes: the text nodes joined, as a parser
\* returns the character data of an element
JoinText(nodes) ==
  IF nodes = <<>> THEN ""
  ELSE (IF Head(nodes).kind = "text" THEN Head(nodes).text ELSE "") \o JoinText(Tail(nodes))

RECURSIVE Decode(_)
\* the generic node tree read back from the XML of node: per element its
\* name, its attributes, its character data and its child elements
\* (src/tests/functional.test.ts 96-107 reads the XML back with a parser)
Decode(node) ==
  [kind |-> "element", name |-> node.name, text |-> JoinText(node.kids),
   attrs |-> node.attrs,
   kids |-> LET els == ElementsOf(node) IN [i \in 1..Len(els) |-> Decode(els[i])]]

RECURSIVE FieldsAppear(_, _, _, _)
\* every field of value that is present and not null appears in the decoded
\* node at the same position with the same value, scalars as strings: a key
\* with the attribute prefix as that attribute, the text-node key as the
\* text, any other key as the child elements of that name, one per item of
\* an array.  skipped are the keys of value left out of the comparison;
\* arrayAsText says whether an array found where one item is expected
\* matches its JSON text.
FieldsAppear(value, node, skipped, arrayAsText) ==
  CASE isNullish(value) -> TRUE
    [] isArray(value) -> arrayAsText /\ node.text = JSONstringify(value) /\ node.kids = <<>>
    [] value.t = "object" ->
         \A i \in 1..Len(value.keys) :
           LET key == value.keys[i]
               v == value.items[i]
               named == SelectSeq(node.kids, LAMBDA k : k.name = key)
           IN (isNullish(v) \/ key \in skipped) \/
              IF key = options.textNodeKey THEN node.text = String(v)
              ELSE IF startsWith(key, options.attributePrefix)
              THEN \E j \in 1..Len(node.attrs) :
                     node.attrs[j] =
                       XAttr(SubSeq(key, Len(options.attributePrefix) + 1, Len(key)), String(v))
              ELSE IF isArray(v)
              THEN /\ Len(named) = Len(v.items)
                   /\ \A j \in 1..Len(named) : FieldsAppear(v.items[j], named[j], {}, arrayAsText)
              ELSE /\ Len(named) = 1
                   /\ FieldsAppear(v, named[1], {}, arrayAsText)
    [] OTHER -> node.text = String(value) /\ node.kids = <<>>

UnmappedRootKeys ==
  IF ~RootIsObjectOfComplexType THEN {}
  ELSE {k \in Range(RootValue.keys) :
          \/ k = options.textNodeKey
               /\ ~resolveComplexTypeForElement(walker, RootEl).hasTextContent
          \/ /\ startsWith(k, options.attributePrefix)
             /\ k \notin {options.attributePrefix \o a.name :
                            a \in Range(getAttributesForElement(walker, RootEl))}}

Wrapped(B) == JObj(<<schema.rootElement>>, <<B>>)

\* the conversion of the state has ended, it was given no rootElement option
\* and its input is an object, taken as the fields B of the schema's root
BareFormEnded == Ended /\ options.rootElement = "" /\ json.t = "object"

\* C14 as stated: for every JSON object B and the schema's root name r, the
\* conversion of B and the conversion of {r: B} end alike: the same XML, and
\* in strict mode the same validation outcome.
C14_Original ==
  BareFormEnded => outcome = convertJsonToXml(schema, Wrapped(json), options)

\* B is read as something else than the fields of the schema's root: it has
\* a key named as the root, or it is a single key naming another top-level
\* element, which converter.ts 113-120 takes as the root
ReadAsWrapper(B) ==
  \/ hasOwnProperty(B, schema.rootElement)
  \/ Len(B.keys) = 1 /\ hasElement(schema, B.keys[1])

\* C14 as amended: the two forms end alike for every B that has no key named
\* as the schema's root and is not a single key naming a top-level element.
C14_Amended ==
  (BareFormEnded /\ ~ReadAsWrapper(json)) =>
    outcome = convertJsonToXml(schema, Wrapped(json), options)

\* strict conversion of the bare fields of a person, accepted and built
C14_Witness ==
  /\ BareFormEnded
  /\ ~ReadAsWrapper(json)
  /\ schema.rootElement = "person"
  /\ options.strict
  /\ outcome.kind = "xml"
  /\ Get(json, "name") = JStr("n")
  /\ Get(json, "@id") = JStr("7")
  /\ Len(ElementsNamed(XmlRoot, "name")) = 1

(***************************************************************************)
(* C15                                                                     *)
(***************************************************************************)
\* the JSON is a single-key object whose key names a top-level element
SingleKnownKey == Len(json.keys) = 1 /\ hasElement(schema, json.keys[1])

\* C15: when the conversion has ended, the root was chosen by precedence:
\* with a rootElement option, the option's name, and a name absent from the
\* schema has made the conversion fail with XsdMappingError; otherwise, for
\* a single-key JSON whose key names a top-level element, that key with its
\* value as the root content; otherwise the schema's rootElement with the
\* whole JSON as the root content.
C15_RootPrecedence ==
  Ended =>
    IF options.rootElement # ""
    THEN IF hasElement(schema, options.rootElement)
         THEN RootName = options.rootElement
         ELSE outcome.kind = "XsdMappingError"
    ELSE IF SingleKnownKey
         THEN RootName = json.keys[1] /\ RootValue = json.items[1]
         ELSE RootName = schema.rootElement /\ RootValue = json

\* a conversion given a rootElement option naming no element of the schema
\* has produced a document
C15_Witness ==
  /\ pc = "done"
  /\ options.rootElement = AbsentRoot
  /\ ~hasElement(schema, options.rootElement)
  /\ outcome.kind = "xml"
  /\ XmlRoot.name = schema.rootElement

(***************************************************************************)
(* parseXsd (the newest parser, src/unnamed/part_004 222-735).             *)
(* A schema file is the element tree the tokenizer returns for it: a node  *)
(* has a tag, attributes (a sequence of <<name, value>>) and child nodes.  *)
(* raw['k'] of the code is the children of raw with tag k.  Maps keep the  *)
(* order their keys were inserted in, as a JavaScript Map does.            *)
(***************************************************************************)
RawNode(tag, attrs, kids) == [tag |-> tag, attrs |-> attrs, kids |-> kids]

\* raw[key] ?? []: the child nodes with this tag, in document order
children(raw, key) == SelectSeq(raw.kids, LAMBDA k : k.tag = key)

\* raw[key] is defined
has(raw, key) == \E i \in 1..Len(raw.kids) : raw.kids[i].tag = key

\* raw['@_name'] is defined
hasAttr(raw, name) == \E i \in 1..Len(raw.attrs) : raw.attrs[i][1] = name

\* attr(node, name, fallback)
attr(raw, name, fallback) ==
  IF hasAttr(raw, name)
  THEN raw.attrs[CHOOSE i \in 1..Len(raw.attrs) :
                   /\ raw.attrs[i][1] = name
                   /\ \A j \in 1..(i - 1) : raw.attrs[j][1] # name][2]
  ELSE fallback

\* an insertion-ordered map: its keys in insertion order and the value of each
OMap(keys, at) == [keys |-> keys, at |-> at]
EmptyOMap == OMap(<<>>, EmptyMap)
Has(m, k) == k \in DOMAIN m.at

\* map.set(k, v): a new key goes last, a known key keeps its place
Put(m, k, v) ==
  OMap(IF Has(m, k) THEN m.keys ELSE Append(m.keys, k),
       [x \in DOMAIN m.at \cup {k} |-> IF x = k THEN v ELSE m.at[x]])

\* map.set(k, v) without the test
PutAlways(m, k, v) == Put(m, k, v)

\* if (!map.has(k)) map.set(k, v)
PutMissing(m, k, v) == IF Has(m, k) THEN m ELSE Put(m, k, v)

RECURSIVE PutAllMissing(_, _, _)
\* for (const [k, v] of other) if (!map.has(k)) map.set(k, v), over the keys
\* of other from position i on
PutAllMissing(m, other, i) ==
  IF i > Len(other.keys) THEN m
  ELSE PutAllMissing(PutMissing(m, other.keys[i], other.at[other.keys[i]]), other, i + 1)

\* XSD_BARE_TO_PREFIXED (lines 270-290): the bare names mapped to xs:*
XSD_BARE_NAMES ==
  {"schema", "element", "attribute", "complexType", "simpleType", "sequence",
   "all", "choice", "include", "import", "complexContent", "simpleContent",
   "extension", "restriction", "any", "annotation", "documentation", "union", "list"}

\* the key normalizeXsPrefix gives a key (lines 299-306)
normalizedKey(key) ==
  IF key \in XSD_BARE_NAMES THEN "xs:" \o key
  ELSE IF startsWith(key, "xsd:") /\ SubSeq(key, 5, Len(key)) \in XSD_BARE_NAMES
       THEN "xs:" \o SubSeq(key, 5, Len(key))
       ELSE key

RECURSIVE normalizeXsPrefix(_)
\* normalizeXsPrefix(node): every key of the tree renamed, attributes kept
normalizeXsPrefix(node) ==
  RawNode(normalizedKey(node.tag), node.attrs,
          [i \in 1..Len(node.kids) |-> normalizeXsPrefix(node.kids[i])])

\* Number.parseInt on the numerals the schemas of the model use
Numerals == [v \in {"0", "1", "2", "3"} |->
               CASE v = "0" -> 0 [] v = "1" -> 1 [] v = "2" -> 2 [] v = "3" -> 3]

\* parseOccurs(raw['@_name'])
parseOccurs(raw, name) ==
  IF ~hasAttr(raw, name) THEN Occurs(1)
  ELSE LET value == attr(raw, name, "")
       IN IF value = "unbounded" THEN Unbounded
          ELSE IF value \in DOMAIN Numerals THEN Occurs(Numerals[value])
          ELSE Occurs(1)

\* parseAttribute(raw)
parseAttribute(raw) ==
  LET use == attr(raw, "use", "optional")
  IN [AttributeDef(attr(raw, "name", ""),
                   IF use \in {"required", "optional", "prohibited"} THEN use ELSE "optional",
                   hasAttr(raw, "default"), attr(raw, "default", ""))
        EXCEPT !.type = attr(raw, "type", "xs:string")]

\* the key under which the inline complex type of element name is kept
inlineKeyOf(name) == "inline:" \o name

\* parseElement(raw); the inline complex type it parses is kept under
\* inlineKeyOf(name), see inlineTypesOf
parseElement(raw) ==
  LET name == attr(raw, "name", "")
  IN ElementDef(name, attr(raw, "type", ""),
                IF has(raw, "xs:complexType") THEN inlineKeyOf(name) ELSE "",
                parseOccurs(raw, "minOccurs").n, parseOccurs(raw, "maxOccurs"))

\* lines 376-383: the tokenizer gives the string "" for an element without
\* attributes and children, and an object for every other element; an object
\* made by the code carries the tag "{}"
EmptyObject == RawNode("{}", <<>>, <<>>)
isObjectValue(value) == value.attrs # <<>> \/ value.kids # <<>> \/ value = EmptyObject

\* value ?? {} (the compositor read as in src/unnamed/part_005 83-99): the
\* string "" is not nullish and stays
asObjectNullish(value) == value

\* lines 384-388
asObject(value) == IF isObjectValue(value) THEN value ELSE EmptyObject

\* extractCompositorElements(raw), elements still raw; typeError tells that
\* 'xs:any' in seq is evaluated on a value that is no object, which throws
extractCompositorElements(raw) ==
  LET under(key, compositor) ==
        LET node == asObject(children(raw, key)[1])
        IN [compositor |-> compositor, elements |-> children(node, "xs:element"),
            hasWildcard |-> has(node, "xs:any"), typeError |-> ~isObjectValue(node)]
  IN IF has(raw, "xs:sequence") THEN under("xs:sequence", "sequence")
     ELSE IF has(raw, "xs:all") THEN under("xs:all", "all")
     ELSE IF has(raw, "xs:choice") THEN under("xs:choice", "choice")
     ELSE [compositor |-> "sequence", elements |-> <<>>, hasWildcard |-> FALSE,
           typeError |-> FALSE]

\* the xs:extension of a content node, as a sequence of none or one
extensionOf(raw, content) ==
  IF has(raw, content) THEN children(children(raw, content)[1], "xs:extension") ELSE <<>>

\* the compositor parseComplexType reads (lines 431-446)
innerOf(raw) ==
  IF has(raw, "xs:complexContent")
  THEN IF extensionOf(raw, "xs:complexContent") # <<>>
       THEN extractCompositorElements(extensionOf(raw, "xs:complexContent")[1])
       ELSE [compositor |-> "sequence", elements |-> <<>>, hasWildcard |-> FALSE,
             typeError |-> FALSE]
  ELSE extractCompositorElements(raw)

RECURSIVE typeErrorInType(_)
\* parseComplexType(raw, name) throws a TypeError, in its own compositor or
\* in parseElement of one of its elements (an inline complex type)
typeErrorInType(raw) ==
  \/ innerOf(raw).typeError
  \/ \E i \in 1..Len(innerOf(raw).elements) :
       LET el == innerOf(raw).elements[i]
       IN has(el, "xs:complexType") /\ typeErrorInType(children(el, "xs:complexType")[1])

\* parseComplexType(raw, name)
parseComplexType(raw, name) ==
  LET inner == innerOf(raw)
      ext == extensionOf(raw, "xs:complexContent")
      sext == extensionOf(raw, "xs:simpleContent")
      rawAttrs == children(raw, "xs:attribute")
                    \o (IF ext # <<>> THEN children(ext[1], "xs:attribute") ELSE <<>>)
                    \o (IF sext # <<>> THEN children(sext[1], "xs:attribute") ELSE <<>>)
  IN ComplexTypeDef(name, inner.compositor,
       [i \in 1..Len(inner.elements) |-> parseElement(inner.elements[i])],
       [i \in 1..Len(rawAttrs) |-> parseAttribute(rawAttrs[i])],
       has(raw, "xs:simpleContent"),
       IF ext # <<>> THEN attr(ext[1], "base", "") ELSE "",
       inner.hasWildcard)

RECURSIVE inlineTypesOf(_, _)
\* the inline complex types parseElement parses for these raw elements and
\* for the elements below them, added to the map m
inlineTypesOf(rawElements, m) ==
  IF rawElements = <<>> THEN m
  ELSE LET raw == Head(rawElements)
           name == attr(raw, "name", "")
           own == IF has(raw, "xs:complexType")
                  THEN LET rawCt == children(raw, "xs:complexType")[1]
                       IN inlineTypesOf(innerOf(rawCt).elements,
                                        Put(m, inlineKeyOf(name), parseComplexType(rawCt, name)))
                  ELSE m
       IN inlineTypesOf(Tail(rawElements), own)

\* key.endsWith(suffix)
endsWith(key, suffix) ==
  /\ Len(key) >= Len(suffix)
  /\ SubSeq(key, Len(key) - Len(suffix) + 1, Len(key)) = suffix

\* what parseXsdInternal throws
TypeError ==
  [threw |-> TRUE, message |-> "TypeError: Cannot use 'in' operator to search for 'xs:any'",
   schema |-> RawNode("", <<>>, <<>>)]
XsdParseError(message) == [threw |-> TRUE, message |-> message, schema |-> RawNode("", <<>>, <<>>)]
Opened(schemaNode) == [threw |-> FALSE, message |-> "", schema |-> schemaNode]

\* { ...defsNsAttrs, ...embedded } (lines 583-589): the xmlns:* attributes of
\* <definitions>, each with the embedded schema's value when it has one, then
\* the other attributes of the embedded schema
embeddedWithNs(defsNode, embedded) ==
  LET defsNs == SelectSeq(defsNode.attrs, LAMBDA a : startsWith(a[1], "xmlns:"))
  IN RawNode(embedded.tag,
       [i \in 1..Len(defsNs) |-> <<defsNs[i][1], attr(embedded, defsNs[i][1], defsNs[i][2])>>]
         \o SelectSeq(embedded.attrs, LAMBDA a : ~hasAttr(RawNode("", defsNs, <<>>), a[1])),
       embedded.kids)

\* lines 556-612: from the tokenized document (its root node) to the schema
\* node the parser works on, or the XsdParseError thrown
schemaOf(rawParsed, resolvedPath) ==
  IF rawParsed.tag = "definitions"
  THEN LET typesNodes == children(rawParsed, "types")
           embedded == IF typesNodes = <<>> THEN <<>>
                       ELSE SelectSeq(typesNodes[1].kids,
                              LAMBDA k : k.tag = "schema" \/ endsWith(k.tag, ":schema"))
       IN IF embedded = <<>>
          THEN XsdParseError("Invalid WSDL: no <types>/<schema> element found in " \o resolvedPath)
          ELSE Opened(normalizeXsPrefix(embeddedWithNs(rawParsed, embedded[1])))
  ELSE LET normalized == IF rawParsed.tag = "schema" THEN normalizeXsPrefix(rawParsed)
                         ELSE rawParsed
       IN IF normalized.tag # "xs:schema"
          THEN XsdParseError("Invalid XSD: root element <xs:schema> not found in " \o resolvedPath)
          ELSE Opened(normalized)

\* a reader for which a missing file is an empty schema
openSchemaMissingAsEmpty(fs, resolvedPath) ==
  IF resolvedPath \notin DOMAIN fs THEN Opened(RawNode("xs:schema", <<>>, <<>>))
  ELSE schemaOf(fs[resolvedPath], resolvedPath)

\* lines 539-612: read and tokenize the file at resolvedPath of the file
\* system fs, and find its schema node
openSchema(fs, resolvedPath) ==
  IF resolvedPath \notin DOMAIN fs
  THEN XsdParseError("Cannot read XSD file: " \o resolvedPath)
  ELSE schemaOf(fs[resolvedPath], resolvedPath)

\* lines 625-641: collecting the top-level elements and the named complex
\* types of the schema node throws a TypeError
collectThrows(schemaNode) ==
  \/ \E raw \in Range(children(schemaNode, "xs:element")) :
       has(raw, "xs:complexType") /\ typeErrorInType(children(raw, "xs:complexType")[1])
  \/ \E raw \in Range(children(schemaNode, "xs:complexType")) :
       attr(raw, "name", "") # "" /\ typeErrorInType(raw)

\* lines 539-658: the schema node of the file whose definitions were
\* collected, or what was thrown on the way
parseFile(fs, resolvedPath) ==
  LET opened == openSchema(fs, resolvedPath)
  IN IF opened.threw THEN opened
     ELSE IF collectThrows(opened.schema) THEN TypeError
     ELSE opened

\* resolve(baseDir, location) for the files of one directory: the location
\* without a leading "./"
resolve(location) ==
  IF startsWith(location, "./") THEN SubSeq(location, 3, Len(location)) ELSE location

RECURSIVE SetEntries(_, _)
\* for (const e of entries) map.set(e.key, e.value), skipping the entries
\* without a name where the code does (if (!name) continue)
SetEntries(m, entries) ==
  IF entries = <<>> THEN m
  ELSE LET e == Head(entries)
       IN SetEntries(IF e.key = "" /\ e.skipEmpty THEN m ELSE Put(m, e.key, e.value),
                     Tail(entries))

\* lines 616-622: the prefix -> namespace URI map of the schema node
prefixMapOf(schemaNode) ==
  LET decls == SelectSeq(schemaNode.attrs,
                         LAMBDA a : startsWith(a[1], "xmlns:") /\ a[1] # "xmlns:xs")
  IN SetEntries(EmptyOMap,
                [i \in 1..Len(decls) |-> [key |-> SubSeq(decls[i][1], 7, Len(decls[i][1])),
                                          value |-> decls[i][2], skipEmpty |-> FALSE]])

\* the include and import edges still to process: those with a schemaLocation,
\* the includes first
edgesOf(schemaNode) ==
  LET inc == children(schemaNode, "xs:include")
      imp == children(schemaNode, "xs:import")
  IN SelectSeq([i \in 1..Len(inc) |-> [kind |-> "include", namespace |-> "",
                                       location |-> attr(inc[i], "schemaLocation", "")]]
                 \o [i \in 1..Len(imp) |-> [kind |-> "import",
                                            namespace |-> attr(imp[i], "namespace", ""),
                                            location |-> attr(imp[i], "schemaLocation", "")]],
               LAMBDA e : e.location # "")

\* lines 614-658: what parseXsdInternal holds of a schema node before it
\* processes the includes and imports
frameOf(schemaNode, resolvedPath) ==
  LET rawTopElements == children(schemaNode, "xs:element")
      rawComplex == children(schemaNode, "xs:complexType")
      rawSimple == children(schemaNode, "xs:simpleType")
  IN [path |-> resolvedPath,
      targetNamespace |-> attr(schemaNode, "targetNamespace", ""),
      prefixMap |-> prefixMapOf(schemaNode),
      elements |-> SetEntries(EmptyOMap,
                     [i \in 1..Len(rawTopElements) |->
                        [key |-> attr(rawTopElements[i], "name", ""),
                         value |-> parseElement(rawTopElements[i]), skipEmpty |-> FALSE]]),
      inlineTypes |-> inlineTypesOf(rawTopElements \o
                        Flatten([i \in 1..Len(children(schemaNode, "xs:complexType")) |->
                                   innerOf(children(schemaNode, "xs:complexType")[i]).elements]),
                        EmptyOMap),
      complexTypes |-> SetEntries(EmptyOMap,
                         [i \in 1..Len(rawComplex) |->
                            [key |-> attr(rawComplex[i], "name", ""),
                             value |-> parseComplexType(rawComplex[i],
                                                        attr(rawComplex[i], "name", "")),
                             skipEmpty |-> TRUE]]),
      simpleTypes |-> SetEntries(EmptyOMap,
                        [i \in 1..Len(rawSimple) |->
                           [key |-> attr(rawSimple[i], "name", ""),
                            value |-> [name |-> attr(rawSimple[i], "name", ""),
                                       base |-> IF has(rawSimple[i], "xs:restriction")
                                                THEN attr(children(rawSimple[i], "xs:restriction")[1],
                                                          "base", "xs:string")
                                                ELSE "xs:string"],
                            skipEmpty |-> TRUE]]),
      rootElement |-> IF rawTopElements # <<>> THEN attr(rawTopElements[1], "name", "") ELSE "",
      edges |-> edgesOf(schemaNode)]

\* the model returned for a file met again (lines 530-536)
EmptyParsedModel ==
  [rootElement |-> "", elements |-> EmptyOMap, complexTypes |-> EmptyOMap,
   simpleTypes |-> EmptyOMap, inlineTypes |-> EmptyOMap, targetNamespace |-> ""]

\* the SchemaModel returned with the file's own rootElement, without line 721
returnedModelOwnRoot(frame) ==
  [rootElement |-> frame.rootElement,
   elements |-> frame.elements, complexTypes |-> frame.complexTypes,
   simpleTypes |-> frame.simpleTypes, inlineTypes |-> frame.inlineTypes,
   targetNamespace |-> frame.targetNamespace]

\* lines 717-723: the SchemaModel parseXsdInternal returns
returnedModel(frame) ==
  [rootElement |-> IF frame.rootElement # "" THEN frame.rootElement
                   ELSE IF frame.elements.keys # <<>> THEN frame.elements.keys[1]
                   ELSE "",
   elements |-> frame.elements, complexTypes |-> frame.complexTypes,
   simpleTypes |-> frame.simpleTypes, inlineTypes |-> frame.inlineTypes,
   targetNamespace |-> frame.targetNamespace]

\* lines 664-676: the definitions of an included model merged into frame
mergeInclude(frame, includedModel) ==
  [frame EXCEPT !.elements = PutAllMissing(@, includedModel.elements, 1),
                !.inlineTypes = PutAllMissing(@, includedModel.inlineTypes, 1),
                !.complexTypes = PutAllMissing(@, includedModel.complexTypes, 1),
                !.simpleTypes = PutAllMissing(@, includedModel.simpleTypes, 1)]

\* lines 688-692: the prefixes of the prefix map bound to import namespace
prefixesFor(prefixMap, importNs) ==
  SelectSeq(prefixMap.keys, LAMBDA pfx : prefixMap.at[pfx] = importNs)

RECURSIVE PutPrefixed(_, _, _, _)
\* for (const pfx of prefixes) if (!map.has(`${pfx}:${k}`)) map.set(..., v)
PutPrefixed(m, prefixes, k, v) ==
  IF prefixes = <<>> THEN m
  ELSE PutPrefixed(PutMissing(m, Head(prefixes) \o ":" \o k, v), Tail(prefixes), k, v)

RECURSIVE registerImported(_, _, _, _)
\* lines 693-706: every entry of other from position i on, put under its key
\* and under prefix:key for each prefix, where missing
registerImported(m, other, prefixes, i) ==
  IF i > Len(other.keys) THEN m
  ELSE LET k == other.keys[i]
           v == other.at[k]
       IN registerImported(PutPrefixed(PutMissing(m, k, v), prefixes, k, v),
                           other, prefixes, i + 1)

\* lines 687-710: the definitions of an imported model merged into frame
mergeImport(frame, importedModel, importNs) ==
  LET prefixes == prefixesFor(frame.prefixMap, importNs)
  IN [frame EXCEPT
        !.complexTypes = registerImported(@, importedModel.complexTypes, prefixes, 1),
        !.simpleTypes = registerImported(@, importedModel.simpleTypes, prefixes, 1),
        !.elements = PutAllMissing(@, importedModel.elements, 1),
        !.inlineTypes = PutAllMissing(@, importedModel.inlineTypes, 1)]

\* the model of the edge's file merged into frame, by the kind of the edge
merge(frame, model, edge) ==
  IF edge.kind = "include" THEN mergeInclude(frame, model)
  ELSE mergeImport(frame, model, edge.namespace)

\* lines 528-537: the file was met before in this parse
alreadyVisitedNever(resolvedPath, seen) == FALSE
alreadyVisited(resolvedPath, seen) == resolvedPath \in seen

(***************************************************************************)
(* The parseXsd call as a state machine: one step for the call itself, one *)
(* for each include or import parseXsdInternal processes and one for each  *)
(* return.                                                                 *)
(***************************************************************************)
Top == stack[Len(stack)]
WithTop(frame) == [stack EXCEPT ![Len(stack)] = frame]
\* the loop over the includes and imports moves to the next one
NextEdge(frame) == [frame EXCEPT !.edges = Tail(@)]

\* the include or import the innermost call is at, and the path it resolves to
AtEdge == pc = "parsing" /\ stack # <<>> /\ Top.edges # <<>>
EdgePath == resolve(Head(Top.edges).location)

\* lines 732-734 and 521-658 for the top-level source: a failure here is
\* thrown to the caller of parseXsd
ParseXsd ==
  /\ pc = "parseXsd"
  /\ LET resolvedPath == resolve(xsdPath)
         opened == parseFile(files, resolvedPath)
     IN /\ visitedFiles' = visitedFiles \cup {resolvedPath}
        /\ reads' = Append(reads, resolvedPath)
        /\ IF opened.threw
           THEN /\ parsed' = [kind |-> IF opened = TypeError THEN "TypeError"
                                       ELSE "XsdParseError",
                              message |-> opened.message,
                              model |-> <<>>]
                /\ stack' = <<>>
                /\ pc' = "thrown"
           ELSE /\ parsed' = parsed
                /\ stack' = <<frameOf(opened.schema, resolvedPath)>>
                /\ pc' = "parsing"
  /\ UNCHANGED <<schema, json, options, walker, outcome, calls, lastQuery, files, xsdPath,
                 suspended>>

\* lines 528-537 inside the try of lines 663-676 / 685-710: the file was met
\* before, the call returns an empty model, which is merged
ResolveVisited ==
  /\ AtEdge
  /\ alreadyVisited(EdgePath, visitedFiles)
  /\ stack' = WithTop(NextEdge(merge(Top, EmptyParsedModel, Head(Top.edges))))
  /\ UNCHANGED <<schema, json, options, pc, walker, outcome, calls, lastQuery,
                 files, xsdPath, visitedFiles, reads, parsed, suspended>>

\* lines 538-658 inside the try: the file cannot be read or has no schema
\* root, what is thrown is caught (lines 677-679, 711-713)
ResolveFails ==
  /\ AtEdge
  /\ ~alreadyVisited(EdgePath, visitedFiles)
  /\ parseFile(files, EdgePath).threw
  /\ visitedFiles' = visitedFiles \cup {EdgePath}
  /\ reads' = Append(reads, EdgePath)
  /\ stack' = WithTop(NextEdge(Top))
  /\ UNCHANGED <<schema, json, options, pc, walker, outcome, calls, lastQuery,
                 files, xsdPath, parsed, suspended>>

\* lines 538-658 inside the try: the file is read and the call goes on in it
ResolveEnters ==
  /\ AtEdge
  /\ ~alreadyVisited(EdgePath, visitedFiles)
  /\ ~parseFile(files, EdgePath).threw
  /\ Len(stack) < MaxDepth
  /\ visitedFiles' = visitedFiles \cup {EdgePath}
  /\ reads' = Append(reads, EdgePath)
  /\ stack' = Append(stack, frameOf(parseFile(files, EdgePath).schema, EdgePath))
  /\ UNCHANGED <<schema, json, options, pc, walker, outcome, calls, lastQuery,
                 files, xsdPath, parsed, suspended>>

\* lines 717-723 of an inner call, then lines 664-676 / 687-710 of its caller
Return ==
  /\ pc = "parsing"
  /\ Len(stack) > 1
  /\ Top.edges = <<>>
  /\ LET caller == stack[Len(stack) - 1]
     IN stack' = Append(SubSeq(stack, 1, Len(stack) - 2),
                        NextEdge(merge(caller, returnedModel(Top), Head(caller.edges))))
  /\ UNCHANGED <<schema, json, options, pc, walker, outcome, calls, lastQuery,
                 files, xsdPath, visitedFiles, reads, parsed, suspended>>

\* lines 717-723 of the top-level call: parseXsd returns the model
ParseEnd ==
  /\ pc = "parsing"
  /\ Len(stack) = 1
  /\ Top.edges = <<>>
  /\ parsed' = [kind |-> "model", message |-> "", model |-> returnedModel(Top)]
  /\ stack' = <<>>
  /\ pc' = "returned"
  /\ UNCHANGED <<schema, json, options, walker, outcome, calls, lastQuery,
                 files, xsdPath, visitedFiles, reads, suspended>>

NextParser ==
  ParseXsd \/ ResolveVisited \/ ResolveFails \/ ResolveEnters \/ Return \/ ParseEnd

(***************************************************************************)
(* parseXsd as the recursive function it is (lines 521-735), on a file     *)
(* system that does not change: the result of a call that runs alone.      *)
(***************************************************************************)
RECURSIVE parseXsdInternal(_, _, _)
RECURSIVE mergeEdges(_, _, _)
\* lines 660-715: the loops over the includes and the imports of frame
mergeEdges(fs, frame, seen) ==
  IF frame.edges = <<>> THEN [frame |-> frame, visited |-> seen]
  ELSE LET edge == Head(frame.edges)
           inner == parseXsdInternal(fs, edge.location, seen)
       IN mergeEdges(fs,
                     NextEdge(IF inner.threw THEN frame ELSE merge(frame, inner.model, edge)),
                     inner.visited)

\* lines 521-723; visited is the set after the call
parseXsdInternal(fs, location, seen) ==
  LET resolvedPath == resolve(location)
  IN IF alreadyVisited(resolvedPath, seen)
     THEN [threw |-> FALSE, message |-> "", model |-> EmptyParsedModel, visited |-> seen]
     ELSE LET opened == parseFile(fs, resolvedPath)
          IN IF opened.threw
             THEN [threw |-> TRUE, message |-> opened.message, model |-> <<>>,
                   visited |-> seen \cup {resolvedPath}]
             ELSE LET done == mergeEdges(fs, frameOf(opened.schema, resolvedPath),
                                         seen \cup {resolvedPath})
                  IN [threw |-> FALSE, message |-> "", model |-> returnedModel(done.frame),
                      visited |-> done.visited]

\* lines 732-734
parseXsd(fs, path) ==
  LET result == parseXsdInternal(fs, path, {})
  IN IF result.threw
     THEN [kind |-> IF result.message = TypeError.message THEN "TypeError"
                    ELSE "XsdParseError",
           message |-> result.message, model |-> <<>>]
     ELSE [kind |-> "model", message |-> "", model |-> result.model]

(***************************************************************************)
(* Two parseXsd calls in one event loop: one runs, the other waits at an   *)
(* await (readFile or an inner parseXsdInternal) and is resumed when the   *)
(* running one reaches an await or ends.                                   *)
(***************************************************************************)
\* one set for all calls: the running call goes on with what both have visited
visitedShared(own, running) == own \cup running

\* new Set<string>() of line 733: the resumed call goes on with its own set
visitedOnResume(own, running) == own

\* the running call is suspended and the waiting one resumed
Switch ==
  /\ suspended.pc \in {"parseXsd", "parsing"}
  /\ pc \in {"parseXsd", "parsing", "returned", "thrown"}
  /\ pc' = suspended.pc
  /\ xsdPath' = suspended.xsdPath
  /\ visitedFiles' = visitedOnResume(suspended.visitedFiles, visitedFiles)
  /\ stack' = suspended.stack
  /\ reads' = suspended.reads
  /\ parsed' = suspended.parsed
  /\ suspended' = [pc |-> pc, xsdPath |-> xsdPath, visitedFiles |-> visitedFiles,
                   stack |-> stack, reads |-> reads, parsed |-> parsed,
                   interleaved |-> suspended.interleaved
                                     \/ (pc = "parsing" /\ suspended.pc = "parsing")]
  /\ UNCHANGED <<schema, json, options, walker, outcome, calls, lastQuery, files>>

NextConcurrent == NextParser \/ Switch

(***************************************************************************)
(* The schema files parseXsd is run on: a.xsd, b.xsd and c.xsd declare the *)
(* types TA/SA, TB/SB and TC/SC; b.xsd and c.xsd both declare the element  *)
(* shared, the complex type Dup and the simple type SDup, each differently.*)
(* EA, EB and EC have the empty compositor <sequence/>, Dup has <all/> in  *)
(* b.xsd and <choice/> in c.xsd.                                           *)
(* bad.xsd is a document without a schema root and gone.xsd does not exist.*)
(* A file is written in a dialect: with the xs: prefix, with the XSD       *)
(* namespace as the default namespace ("") or with the xsd: prefix; the    *)
(* names of the XSD vocabulary, built-in types included, carry the prefix. *)
(***************************************************************************)
XSD_NS == "http://www.w3.org/2001/XMLSchema"

UpperOf(letter) == CASE letter = "a" -> "A" [] letter = "b" -> "B" [] OTHER -> "C"

\* the namespace declarations a file carries: the XSD namespace under the
\* dialect's prefix, and prefixes for the namespaces of the files: pa, pc,
\* and for urn:b both pb and qb, but in c.xsd xb
Declarations(P, letter) ==
  <<IF P = "" THEN <<"xmlns", XSD_NS>> ELSE <<"xmlns:" \o SubSeq(P, 1, Len(P) - 1), XSD_NS>>,
    <<"targetNamespace", "urn:" \o letter>>,
    <<"xmlns:pa", "urn:a">>, <<"xmlns:pc", "urn:c">>>>
    \o (IF letter = "c" THEN <<<<"xmlns:xb", "urn:b">>>>
        ELSE <<<<"xmlns:pb", "urn:b">>, <<"xmlns:qb", "urn:b">>>>)

\* an include or import of the file: kind, location and namespace attribute
Edge(kind, location, namespace) == [kind |-> kind, location |-> location, namespace |-> namespace]

EdgeNode(P, e) ==
  IF e.kind = "include"
  THEN RawNode(P \o "include", <<<<"schemaLocation", e.location>>>>, <<>>)
  ELSE RawNode(P \o "import",
               <<<<"namespace", e.namespace>>, <<"schemaLocation", e.location>>>>, <<>>)

\* the schema file of letter in dialect P; builtin says whether its
\* declarations refer to built-in types
SchemaFile(P, letter, builtin, edges) ==
  LET simple == IF builtin THEN P \o "string" ELSE "S" \o letter
      field == RawNode(P \o "element",
                 <<<<"name", "f" \o letter>>, <<"type", simple>>, <<"minOccurs", "0">>,
                   <<"maxOccurs", "unbounded">>>>, <<>>)
      version == RawNode(P \o "attribute",
                   <<<<"name", "v">>, <<"use", "required">>>>
                     \o (IF builtin THEN <<<<"type", P \o "token">>>> ELSE <<>>), <<>>)
      body == <<RawNode(P \o "sequence", <<>>, <<field, RawNode(P \o "any", <<>>, <<>>)>>), version>>
      own == IF letter = "b"
             THEN RawNode(P \o "complexType", <<<<"name", "TB">>>>,
                    <<RawNode(P \o "complexContent", <<>>,
                        <<RawNode(P \o "extension", <<<<"base", "Dup">>>>, body)>>)>>)
             ELSE RawNode(P \o "complexType", <<<<"name", "T" \o UpperOf(letter)>>>>, body)
      dup == IF letter = "a" THEN <<>>
             ELSE <<RawNode(P \o "element",
                      <<<<"name", "shared">>, <<"type", "T" \o UpperOf(letter)>>>>, <<>>),
                    RawNode(P \o "complexType", <<<<"name", "Dup">>>>,
                      <<RawNode(P \o (IF letter = "b" THEN "all" ELSE "choice"), <<>>, <<>>)>>),
                    RawNode(P \o "simpleType", <<<<"name", "SDup">>>>,
                      <<RawNode(P \o "restriction",
                          <<<<"base", P \o (IF letter = "b" THEN "string" ELSE "token")>>>>,
                          <<>>)>>)>>
      inline == RawNode(P \o "element", <<<<"name", "box" \o UpperOf(letter)>>>>,
                  <<RawNode(P \o "complexType", <<>>,
                      <<RawNode(P \o "simpleContent", <<>>,
                          <<RawNode(P \o "extension", <<<<"base", simple>>>>,
                              <<RawNode(P \o "attribute",
                                  <<<<"name", "unit">>, <<"default", "kg">>>>, <<>>)>>)>>)>>)>>)
      empty == RawNode(P \o "complexType", <<<<"name", "E" \o UpperOf(letter)>>>>,
                 <<RawNode(P \o "sequence", <<>>, <<>>)>>)
  IN RawNode(P \o "schema", Declarations(P, letter),
       <<RawNode(P \o "annotation", <<>>, <<RawNode(P \o "documentation", <<>>, <<>>)>>),
         RawNode(P \o "element",
                 <<<<"name", "root" \o UpperOf(letter)>>, <<"type", "T" \o UpperOf(letter)>>>>, <<>>),
         inline, own, empty>>
       \o dup
       \o <<RawNode(P \o "simpleType", <<<<"name", "S" \o UpperOf(letter)>>>>,
              <<IF builtin
                THEN RawNode(P \o "restriction", <<<<"base", P \o "string">>>>, <<>>)
                ELSE RawNode(P \o "list", <<<<"itemType", "S" \o UpperOf(letter)>>>>, <<>>)>>)>>
       \o [i \in 1..Len(edges) |-> EdgeNode(P, edges[i])])

\* a document that is no schema
NotASchema == RawNode("html", <<>>, <<RawNode("body", <<>>, <<>>)>>)

\* the sequences of at most n of the edges of S
EdgeLists(S, n) == UNION {[1..k -> S] : k \in 0..n}

\* the edges the files are given
EdgesOfA ==
  EdgeLists({Edge("include", "b.xsd", ""), Edge("import", "b.xsd", "urn:b"),
             Edge("include", "./c.xsd", ""), Edge("import", "c.xsd", "urn:c"),
             Edge("include", "gone.xsd", ""), Edge("import", "bad.xsd", "urn:x"),
             Edge("include", "", "")}, MaxEdges)
EdgesOfB ==
  EdgeLists({Edge("include", "a.xsd", ""), Edge("import", "a.xsd", "urn:a"),
             Edge("include", "c.xsd", ""), Edge("import", "c.xsd", "urn:c"),
             Edge("include", "b.xsd", ""), Edge("import", "bad.xsd", "urn:x")}, 1)
EdgesOfC ==
  EdgeLists({Edge("include", "a.xsd", ""), Edge("import", "a.xsd", "urn:a"),
             Edge("include", "./b.xsd", ""), Edge("import", "b.xsd", "urn:b")}, 1)

\* the file system: a.xsd in dialect P, b.xsd with the xs: prefix, c.xsd with
\* the default namespace
FileSystem(P, builtin, ea, eb, ec) ==
  [f \in {"a.xsd", "b.xsd", "c.xsd", "bad.xsd"} |->
     CASE f = "a.xsd" -> SchemaFile(P, "a", builtin, ea)
       [] f = "b.xsd" -> SchemaFile("xs:", "b", TRUE, eb)
       [] f = "c.xsd" -> SchemaFile("", "c", TRUE, ec)
       [] OTHER -> NotASchema]

\* a type library: the schema file without its top-level elements
TypeLibrary(file) ==
  [file EXCEPT !.kids = SelectSeq(@, LAMBDA k : ~endsWith(k.tag, "element"))]

\* the dialects of the top-level file; the xsd: prefix and the files without
\* built-in types are tried on the standalone schema, and a.xsd is a type
\* library or not where it has the xs: prefix
InitParser ==
  /\ \E ea \in EdgesOfA, eb \in EdgesOfB, ec \in EdgesOfC :
       \E P \in IF ea = <<>> THEN {"xs:", "", "xsd:"} ELSE {"xs:", ""} :
         \E builtin \in IF ea = <<>> THEN BOOLEAN ELSE {TRUE} :
           \E library \in IF P = "xs:" /\ builtin THEN BOOLEAN ELSE {FALSE} :
             files = [FileSystem(P, builtin, ea, eb, ec) EXCEPT
                        !["a.xsd"] = IF library THEN TypeLibrary(@) ELSE @]
  /\ xsdPath \in IF \A f \in DOMAIN files \ {"bad.xsd"} : edgesOf(normalizeXsPrefix(files[f])) = <<>>
                 THEN {"a.xsd", "./a.xsd", "gone.xsd", "bad.xsd"}
                 ELSE {"a.xsd"}
  /\ visitedFiles = {}
  /\ stack = <<>>
  /\ reads = <<>>
  /\ parsed = NoParse
  /\ suspended = NoCall
  /\ pc = "parseXsd"
  /\ schema = EmptyMap
  /\ walker = EmptyMap
  /\ json = <<>>
  /\ options = NoOptions
  /\ outcome = NoOutcome
  /\ calls = <<>>
  /\ lastQuery = NoQuery

SpecParser == InitParser /\ [][NextParser]_vars

\* the edges to the schema files among those given
ToSchemaFiles(edgeLists) ==
  {edges \in edgeLists :
     \A i \in 1..Len(edges) : resolve(edges[i].location) \in {"a.xsd", "b.xsd", "c.xsd"}}

\* two calls on the same file system, one of a.xsd and one of a.xsd or
\* b.xsd, neither started; b.xsd may import a file that is no schema
InitConcurrent ==
  /\ \E ea \in ToSchemaFiles(EdgesOfA),
        eb \in ToSchemaFiles(EdgesOfB)
                 \cup {edges \in EdgesOfB :
                         \E i \in 1..Len(edges) : resolve(edges[i].location) = "bad.xsd"},
        ec \in ToSchemaFiles(EdgesOfC) :
       files = FileSystem("xs:", TRUE, ea, eb, ec)
  /\ xsdPath = "a.xsd"
  /\ \E other \in {"a.xsd", "b.xsd"} :
       suspended = [NoCall EXCEPT !.pc = "parseXsd", !.xsdPath = other]
  /\ visitedFiles = {}
  /\ stack = <<>>
  /\ reads = <<>>
  /\ parsed = NoParse
  /\ pc = "parseXsd"
  /\ schema = EmptyMap
  /\ walker = EmptyMap
  /\ json = <<>>
  /\ options = NoOptions
  /\ outcome = NoOutcome
  /\ calls = <<>>
  /\ lastQuery = NoQuery

SpecConcurrent == InitConcurrent /\ [][NextConcurrent]_vars

(***************************************************************************)
(* What the claims speak of, read off the state of a parseXsd call.        *)
(***************************************************************************)
\* the file at path can be read and has a schema root
Loads(path) == ~openSchema(files, path).threw

\* what parseXsdInternal holds of the file at path before its includes and imports
OwnFrame(path) == frameOf(openSchema(files, path).schema, path)

\* the files an include or import of the file at path names
Targets(path) == {resolve(e.location) : e \in Range(OwnFrame(path).edges)}

RECURSIVE ReachableFrom(_)
\* the paths reachable from those of S through the includes and imports of
\* the files that load
ReachableFrom(S) ==
  LET more == S \cup UNION {Targets(f) : f \in {g \in S : Loads(g)}}
  IN IF more = S THEN S ELSE ReachableFrom(more)

\* the files that load among those reachable from the top-level source
ReachableSchemas == {f \in ReachableFrom({resolve(xsdPath)}) : Loads(f)}

RECURSIVE isBareName(_)
\* the key has no prefix: no colon in it
isBareName(k) ==
  \/ Len(k) = 0
  \/ SubSeq(k, 1, 1) # ":" /\ isBareName(SubSeq(k, 2, Len(k)))

NoDuplicates(seq) == \A i, j \in 1..Len(seq) : seq[i] = seq[j] => i = j

ParseEnded == pc \in {"returned", "thrown"}
ParseReturned == pc = "returned"

(***************************************************************************)
(* C16                                                                     *)
(***************************************************************************)
\* no file is read twice, and the model returned holds under bare names
\* exactly the named types of the schema files reachable from the source
UnionOfReachable ==
  /\ NoDuplicates(reads)
  /\ ParseReturned =>
       /\ {k \in Range(parsed.model.complexTypes.keys) : isBareName(k)}
            = UNION {DOMAIN OwnFrame(f).complexTypes.at : f \in ReachableSchemas}
       /\ {k \in Range(parsed.model.simpleTypes.keys) : isBareName(k)}
            = UNION {DOMAIN OwnFrame(f).simpleTypes.at : f \in ReachableSchemas}
       /\ NoDuplicates(parsed.model.complexTypes.keys)
       /\ NoDuplicates(parsed.model.simpleTypes.keys)

\* the paths the parse can meet: the source and every location named
KnownPaths ==
  {resolve(xsdPath)} \cup DOMAIN files \cup UNION {Targets(f) : f \in {g \in DOMAIN files : Loads(g)}}

RECURSIVE PendingEdges(_)
\* the includes and imports the calls in progress have still to process
PendingEdges(frames) ==
  IF frames = <<>> THEN 0 ELSE Len(Head(frames).edges) + PendingEdges(Tail(frames))

\* what is left of the parse: the files not yet met, each worth more than
\* the frame and the edges it can add, the edges pending, the calls in
\* progress and the call of parseXsd itself
Remaining(seen, frames, at) ==
  Cardinality(KnownPaths \ seen) * (MaxEdges + 3)
    + PendingEdges(frames) + Len(frames)
    + (IF at = "parseXsd" THEN 2 ELSE IF at = "parsing" THEN 1 ELSE 0)

\* the parse has ended or one of its steps can be taken
EndedOrCanStep ==
  \/ ParseEnded
  \/ pc = "parseXsd"
  \/ /\ pc = "parsing"
     /\ stack # <<>>
     /\ Top.edges # <<>> =>
          \/ alreadyVisited(EdgePath, visitedFiles)
          \/ openSchema(files, EdgePath).threw
          \/ Len(stack) < MaxDepth

\* C16: for every graph of schema files linked by includes and imports,
\* cycles included, parseXsd ends (every step takes from what remains of the
\* parse, a natural number, and the parse is never stuck before its end), it
\* reads no file twice, and the model it returns has as bare-name
\* complexTypes and simpleTypes keys exactly the named types of the readable
\* files reachable from the source, each once.
C16_TerminatesWithUnion ==
  /\ [][Remaining(visitedFiles', stack', pc') < Remaining(visitedFiles, stack, pc)]_vars
  /\ [](EndedOrCanStep /\ UnionOfReachable)

\* a parse over a cycle of three files with an include and imports has
\* returned the types of all three
C16_Witness ==
  /\ ParseReturned
  /\ reads = <<"a.xsd", "b.xsd", "c.xsd">>
  /\ "a.xsd" \in Targets("c.xsd")
  /\ "c.xsd" \in Targets("b.xsd")
  /\ \E e \in Range(OwnFrame("b.xsd").edges) : e.kind = "import"
  /\ \E e \in Range(OwnFrame("a.xsd").edges) : e.kind = "include" /\ resolve(e.location) = "b.xsd"
  /\ {"TA", "TB", "TC", "Dup"} \subseteq Range(parsed.model.complexTypes.keys)

(***************************************************************************)
(* C17                                                                     *)
(***************************************************************************)
\* the top-level source as a resolved path
Source == resolve(xsdPath)

\* the imports of the source whose location loads
ResolvedImports ==
  {e \in Range(OwnFrame(Source).edges) : e.kind = "import" /\ Loads(resolve(e.location))}

\* the keys the import e of the source registers for the name k
KeysFor(e, k) ==
  {k} \cup {pfx \o ":" \o k : pfx \in Range(prefixesFor(OwnFrame(Source).prefixMap, e.namespace))}

\* C17: when parseXsd has returned, for every import of the source whose
\* location resolves, every complex and simple type of the imported file is
\* registered under its bare name and under prefix:name for every prefix of
\* the source bound to the import's namespace, whatever the graph, also when
\* the imported file was loaded through another edge before.
C17_ImportedTypesRegistered ==
  ParseReturned =>
    \A e \in ResolvedImports :
      /\ \A k \in DOMAIN OwnFrame(resolve(e.location)).complexTypes.at :
           KeysFor(e, k) \subseteq DOMAIN parsed.model.complexTypes.at
      /\ \A k \in DOMAIN OwnFrame(resolve(e.location)).simpleTypes.at :
           KeysFor(e, k) \subseteq DOMAIN parsed.model.simpleTypes.at

\* a.xsd includes c.xsd, which imports b.xsd, and then imports b.xsd itself:
\* the types of b.xsd are there but not under the prefixes of a.xsd
C17_Witness ==
  /\ ParseReturned
  /\ Source = "a.xsd"
  /\ reads = <<"a.xsd", "c.xsd", "b.xsd">>
  /\ OwnFrame("a.xsd").edges = <<Edge("include", "./c.xsd", ""), Edge("import", "b.xsd", "urn:b")>>
  /\ OwnFrame("c.xsd").edges = <<Edge("import", "b.xsd", "urn:b")>>
  /\ {"TB", "xb:TB"} \subseteq DOMAIN parsed.model.complexTypes.at
  /\ "pb:TB" \notin DOMAIN parsed.model.complexTypes.at
  /\ "qb:TB" \notin DOMAIN parsed.model.complexTypes.at

(***************************************************************************)
(* C18                                                                     *)
(***************************************************************************)
\* the location cannot be read, or what is read has no schema root
FailsToLoad(path) ==
  \/ path \notin DOMAIN files
  \/ ~(endsWith(files[path].tag, "schema") \/ files[path].tag = "definitions")

\* the innermost call is at an include or import of a file not met before
\* that fails to load
AtFailingEdge == AtEdge /\ EdgePath \notin visitedFiles /\ FailsToLoad(EdgePath)

\* what a call holds of definitions
Registries(frame) ==
  <<frame.elements, frame.complexTypes, frame.simpleTypes, frame.inlineTypes>>

\* C18: a failure to load an included or imported file never fails the parse:
\* the step taken at such an edge leaves the registries of the including call
\* as they were, throws nothing, and goes on with the remaining includes and
\* imports; parseXsd fails only in the top-level call, before any include or
\* import, and it does fail with XsdParseError when the top-level source
\* fails to load.
C18_OnlyTopLevelFailureThrows ==
  /\ [][AtFailingEdge =>
          /\ Len(stack') = Len(stack)
          /\ Registries(stack'[Len(stack')]) = Registries(Top)
          /\ stack'[Len(stack')].edges = Tail(Top.edges)
          /\ parsed' = parsed
          /\ pc' = pc]_vars
  /\ [](ParseEnded =>
          /\ parsed.kind = "XsdParseError" => reads = <<Source>>
          /\ FailsToLoad(Source) => parsed.kind = "XsdParseError"
          /\ parsed.kind \in {"model", "XsdParseError"})

\* a.xsd includes a file that does not exist and then imports b.xsd: the
\* parse has returned with the types of b.xsd under the prefixes of a.xsd
C18_Witness ==
  /\ ParseReturned
  /\ reads = <<"a.xsd", "gone.xsd", "b.xsd">>
  /\ "gone.xsd" \notin DOMAIN files
  /\ OwnFrame("a.xsd").edges = <<Edge("include", "gone.xsd", ""), Edge("import", "b.xsd", "urn:b")>>
  /\ {"TA", "TB", "pb:TB", "qb:TB"} \subseteq DOMAIN parsed.model.complexTypes.at

(***************************************************************************)
(* C19                                                                     *)
(***************************************************************************)
\* what parseXsd returns for a schema file without includes and imports
ParsedAlone(doc, path) ==
  [kind |-> "model", message |-> "",
   model |-> returnedModel(frameOf(schemaOf(doc, path).schema, path))]

\* the source is the standalone schema a.xsd written in dialect P
SourceIsStandalone(P, builtin) ==
  Source \in DOMAIN files /\ files[Source] = SchemaFile(P, "a", builtin, <<>>)

\* C19: a schema written with the XSD namespace as default namespace and the
\* same schema written with the xs: prefix parse to identical models.
C19_DefaultNamespaceEquivalent ==
  ParseEnded =>
    \A builtin \in BOOLEAN :
      SourceIsStandalone("", builtin) =>
        parsed = ParsedAlone(SchemaFile("xs:", "a", builtin, <<>>), Source)

\* a default-namespace schema that refers to the built-in type string has
\* been parsed: the reference is kept as written, "string", where the xs:
\* schema gives "xs:string"
C19_Witness ==
  /\ ParseReturned
  /\ SourceIsStandalone("", TRUE)
  /\ parsed.model.complexTypes.at["TA"].elements[1].typeName = "string"
  /\ ParsedAlone(SchemaFile("xs:", "a", TRUE, <<>>), Source).model.complexTypes.at["TA"].elements[1].typeName
       = "xs:string"
  /\ parsed.model.simpleTypes.at["SA"].base = "string"

(***************************************************************************)
(* C20                                                                     *)
(***************************************************************************)
\* C20: a standalone schema written with the xsd: prefix is normalized to
\* xs: through the whole tree: parseXsd succeeds and returns the model of
\* the same schema written with the xs: prefix.
C20_XsdPrefixEquivalent ==
  ParseEnded =>
    \A builtin \in BOOLEAN :
      SourceIsStandalone("xsd:", builtin) =>
        /\ parsed.kind = "model"
        /\ parsed = ParsedAlone(SchemaFile("xs:", "a", builtin, <<>>), Source)

\* parseXsd of a standalone schema with the xsd: prefix has thrown
C20_Witness ==
  /\ pc = "thrown"
  /\ SourceIsStandalone("xsd:", FALSE)
  /\ files[Source].tag = "xsd:schema"
  /\ parsed.kind = "XsdParseError"
  /\ reads = <<Source>>

(***************************************************************************)
(* C21                                                                     *)
(***************************************************************************)
\* the type name is known to the model in no way
Unrecognized(m, typeName) ==
  /\ typeName # ""
  /\ typeName \notin XS_SIMPLE_TYPES
  /\ typeName \notin m.simpleTypes
  /\ typeName \notin DOMAIN m.complexTypes

\* C21: isSimpleType answers true for an absent type name, for a name the
\* schema does not recognize at all, for a built-in scalar type name and for a
\* registered named simple type.
C21_SimpleTypeDefaultsToText ==
  lastQuery.askedType =>
    ((\/ lastQuery.typeName = ""
      \/ Unrecognized(walker, lastQuery.typeName)
      \/ lastQuery.typeName \in XS_SIMPLE_TYPES
      \/ lastQuery.typeName \in walker.simpleTypes)
       => lastQuery.simple)

\* isSimpleType has been asked about a name the model does not know and has
\* answered false
C21_Witness ==
  /\ lastQuery.askedType
  /\ lastQuery.typeName = "Missing"
  /\ Unrecognized(walker, "Missing")
  /\ ~lastQuery.simple

(***************************************************************************)
(* C22                                                                     *)
(***************************************************************************)
\* every entry of the map before is an entry of the map after, with the same
\* value and at the same place
EntriesKept(before, after) ==
  /\ Len(before.keys) <= Len(after.keys)
  /\ SubSeq(after.keys, 1, Len(before.keys)) = before.keys
  /\ \A k \in DOMAIN before.at : after.at[k] = before.at[k]

FrameKept(before, after) ==
  /\ EntriesKept(before.elements, after.elements)
  /\ EntriesKept(before.complexTypes, after.complexTypes)
  /\ EntriesKept(before.simpleTypes, after.simpleTypes)

\* the calls in progress before and after a step keep what they hold, and the
\* model returned is what the top-level call held
WrittenOnce(framesBefore, framesAfter, result) ==
  /\ \A i \in 1..Len(framesBefore) :
       i <= Len(framesAfter) => FrameKept(framesBefore[i], framesAfter[i])
  /\ (result.kind = "model" /\ framesBefore # <<>>) => FrameKept(framesBefore[1], result.model)

\* the registry of a frame or model by its name
RegistryOf(x, registry) ==
  CASE registry = "elements" -> x.elements
    [] registry = "complexTypes" -> x.complexTypes
    [] OTHER -> x.simpleTypes

\* the files read that declare k in the registry, in the order they were read
Declarers(registry, k) ==
  SelectSeq(reads, LAMBDA f : Loads(f) /\ k \in DOMAIN RegistryOf(OwnFrame(f), registry).at)

\* each key of the returned registry holds the definition of the first file
\* read that declares it
FirstWins(registry) ==
  \A k \in DOMAIN RegistryOf(parsed.model, registry).at :
    Declarers(registry, k) # <<>> =>
      RegistryOf(parsed.model, registry).at[k]
        = RegistryOf(OwnFrame(Declarers(registry, k)[1]), registry).at[k]

ElementDeclarers ==
  SelectSeq(reads, LAMBDA f : Loads(f) /\ OwnFrame(f).elements.keys # <<>>)

\* C23: the rootElement of the returned model is the first top-level element
\* of the parsed file; if it declares none, the first element merged from
\* the includes and imports, which is the first element of the first file
\* read that declares one; it is empty only when the model has no element.
C23_RootElement ==
  ParseReturned =>
    LET own == OwnFrame(Source).elements.keys
        merged == parsed.model.elements.keys
    IN /\ own # <<>> => parsed.model.rootElement = own[1]
       /\ (own = <<>> /\ merged # <<>>) =>
            /\ parsed.model.rootElement = merged[1]
            /\ parsed.model.rootElement = OwnFrame(ElementDeclarers[1]).elements.keys[1]
       /\ parsed.model.rootElement = "" <=> merged = <<>>

\* a.xsd declares no element and declares the import of b.xsd before the
\* include of c.xsd: the root is the first element of c.xsd
C23_Witness ==
  /\ ParseReturned
  /\ OwnFrame("a.xsd").elements.keys = <<>>
  /\ files["a.xsd"].kids[Len(files["a.xsd"].kids)].tag = "xs:include"
  /\ reads = <<"a.xsd", "c.xsd", "b.xsd">>
  /\ parsed.model.rootElement = "rootC"

(***************************************************************************)
(* C24                                                                     *)
(***************************************************************************)
\* the names the complex types of the model carry
TypeNamesOf(m) ==
  {m.complexTypes[k].name : k \in DOMAIN m.complexTypes}
    \cup {m.inlineTypes[k].name : k \in DOMAIN m.inlineTypes}

\* the extends references of the queried type come back to a type already met
\* or lead to an unregistered type
QueriedChainCyclesOrDangles ==
  /\ lastQuery.asked
  /\ hasComplexType(walker, lastQuery.el)
  /\ LET last == lastQuery.calls[Len(lastQuery.calls)]
     IN \/ \E i \in 1..(Len(lastQuery.calls) - 1) : lastQuery.calls[i] = last
        \/ \E k \in DOMAIN walker.complexTypes :
             walker.complexTypes[k].name = last
               /\ walker.complexTypes[k].extends \notin DOMAIN walker.complexTypes \cup {""}

\* C24: the three walker queries end for every model, cyclic and dangling
\* extends references included: a walk makes at most one call more than
\* there are type names; and each query gives what it gives on a walker
\* that was never asked before, whatever was asked before it.
C24_WalksEndAndAreIndependent ==
  lastQuery.asked =>
    /\ Len(lastQuery.calls) <= Cardinality(TypeNamesOf(walker)) + 1
    /\ Len(lastQuery.wildcardCalls) <= Cardinality(TypeNamesOf(walker)) + 1
    /\ Len(lastQuery.calls) < Fuel /\ Len(lastQuery.wildcardCalls) < Fuel
    /\ lastQuery.children = getChildElementsForElement(walker, lastQuery.el)
    /\ lastQuery.attributes = getAttributesForElement(walker, lastQuery.el)
    /\ lastQuery.wildcard = hasWildcardForElement(walker, lastQuery.el)

\* T2 extends T3 extends T2 and the query on an element of type T2 has ended
\* after three calls
C24_Witness ==
  /\ lastQuery.asked
  /\ lastQuery.el = ElementOfType("T2")
  /\ walker.complexTypes["T2"].extends = "T3"
  /\ walker.complexTypes["T3"].extends = "T2"
  /\ lastQuery.calls = <<"T2", "T3", "T2">>
  /\ QueriedChainCyclesOrDangles

(***************************************************************************)
(* C25                                                                     *)
(***************************************************************************)
\* the named complex types of the file whose compositor of this kind the
\* tokenizer gives as the string ""
EmptyCompositorTypes(f, compositor) ==
  {raw \in Range(children(openSchema(files, f).schema, "xs:complexType")) :
     /\ attr(raw, "name", "") # ""
     /\ ~has(raw, "xs:complexContent")
     /\ extractCompositorElements(raw).compositor = compositor
     /\ children(raw, "xs:" \o compositor) = <<RawNode("xs:" \o compositor, <<>>, <<>>)>>}

\* C25: a complex type whose compositor is tokenized as a non-object value
\* is parsed without failure: no parse ends with a TypeError, and the type
\* of every file read has that compositor kind, no elements and no wildcard.
C25_EmptyCompositorParsed ==
  ParseEnded =>
    /\ parsed.kind # "TypeError"
    /\ parsed.kind = "model" =>
         \A f \in Range(reads) : \A compositor \in {"sequence", "all", "choice"} :
           Loads(f) =>
             \A raw \in EmptyCompositorTypes(f, compositor) :
               LET k == attr(raw, "name", "")
               IN /\ Has(parsed.model.complexTypes, k)
                  /\ Declarers("complexTypes", k)[1] = f =>
                       /\ parsed.model.complexTypes.at[k].compositor = compositor
                       /\ parsed.model.complexTypes.at[k].elements = <<>>
                       /\ ~parsed.model.complexTypes.at[k].hasWildcard

\* a.xsd with <sequence/> in EA includes b.xsd with <all/> in Dup and c.xsd
\* with <choice/> in Dup; the types are in the model returned
C25_Witness ==
  /\ ParseReturned
  /\ reads = <<"a.xsd", "c.xsd", "b.xsd">>
  /\ EmptyCompositorTypes("a.xsd", "sequence") # {}
  /\ EmptyCompositorTypes("b.xsd", "all") # {}
  /\ EmptyCompositorTypes("c.xsd", "choice") # {}
  /\ ~isObjectValue(children(files["a.xsd"], "xs:complexType")[2].kids[1])
  /\ parsed.model.complexTypes.at["EA"].compositor = "sequence"
  /\ parsed.model.complexTypes.at["EA"].elements = <<>>
  /\ parsed.model.complexTypes.at["Dup"].compositor = "choice"
  /\ ~parsed.model.complexTypes.at["Dup"].hasWildcard

(***************************************************************************)
(* C26                                                                     *)
(***************************************************************************)
\* C26: no step of a conversion changes the model parseXsd returned; the
\* model the walker wraps is fixed when the root is selected, is never
\* changed by a validation or a build, and differs from the parsed model in
\* its rootElement only.
C26_ModelIsImmutable ==
  /\ [][schema' = schema /\ (pc # "parsed" => walker' = walker)]_vars
  /\ [](pc # "parsed" => walker = [schema EXCEPT !.rootElement = walker.rootElement])

\* a conversion that selected another root than the parsed model's, validated
\* and built
C26_Witness ==
  /\ Ended
  /\ ValidateRan /\ BuildRan
  /\ walker.rootElement # schema.rootElement
  /\ schema = MainModel
  /\ schema.rootElement = "person"

(***************************************************************************)
(* C27                                                                     *)
(***************************************************************************)
\* C27: of two parseXsd calls whose steps interleave in any order, each
\* returns what it returns when it runs alone.
C27_ConcurrentCallsIndependent ==
  /\ ParseEnded => parsed = parseXsd(files, xsdPath)
  /\ suspended.pc \in {"returned", "thrown"} =>
       suspended.parsed = parseXsd(files, suspended.xsdPath)

\* both calls have ended after the one was suspended in the middle of its
\* parse for the other, which read files the first had read already
C27_Witness ==
  /\ ParseReturned
  /\ suspended.pc = "returned"
  /\ suspended.interleaved
  /\ xsdPath = "a.xsd" /\ suspended.xsdPath = "b.xsd"
  /\ reads = <<"a.xsd", "b.xsd", "c.xsd">>
  /\ suspended.reads = <<"b.xsd", "c.xsd">>
  /\ "TC" \in DOMAIN suspended.parsed.model.complexTypes.at

(***************************************************************************)
(* C28                                                                     *)
(***************************************************************************)
\* C28: when validateJson has returned without error, buildXml on the same
\* input and walker does not fail with XsdMappingError.
C28_ValidatedInputBuilds ==
  (Ended /\ ValidateRan /\ BuildRan) => outcome.kind # "XsdMappingError"

\* { holder: { list: [[{ CNPJ: "1" }]] } }: the validator accepted the array
\* inside the array of the repeatable element list, the builder threw at
\* its first item
C28_Witness ==
  /\ pc = "failed"
  /\ calls = <<"validateJson", "buildXml">>
  /\ validateJson(walker, json, options) = <<>>
  /\ json = JObj(<<"holder">>, <<JObj(<<"list">>, <<JArr(<<JArr(<<OneChoice>>)>>)>>)>>)
  /\ outcome.kind = "XsdMappingError"
  /\ outcome.path = "$.holder.list[0]"

(***************************************************************************)
(* C29                                                                     *)
(***************************************************************************)
\* C29: when strict validation has passed and the XML was built from a root
\* object, the root element carries every attribute of its resolved type
\* with use = required and holds at least one element for every resolved
\* child with minOccurs > 0.
C29_RequiredValuesInOutput ==
  (Ended /\ ValidateRan /\ outcome.kind = "xml" /\ RootIsObjectOfComplexType) =>
    /\ \A a \in Range(getAttributesForElement(walker, RootEl)) :
         a.use = "required" => AttributesNamed(XmlRoot, a.name) # <<>>
    /\ \A c \in Range(getChildElementsForElement(walker, RootEl)) :
         c.minOccurs > 0 => ElementsNamed(XmlRoot, c.name) # <<>>

\* { person: { "@id": null, name: "n" } } has passed strict validation and
\* the person element built has no attribute id
C29_Witness ==
  /\ pc = "done"
  /\ calls = <<"validateJson", "buildXml">>
  /\ RootName = "person"
  /\ RootValue = JObj(<<"@id", "name">>, <<JNull, JStr("n")>>)
  /\ AttributesNamed(XmlRoot, "id") = <<>>
  /\ ElementsNamed(XmlRoot, "name") # <<>>

(***************************************************************************)
(* C30                                                                     *)
(***************************************************************************)
\* the keys of obj that validateElement reports as 'Unknown property' for el
ReportedUnknown(el, obj, path) ==
  LET issues == validateElement(walker, el, obj, path, options)
  IN {k \in Range(obj.keys) :
        \E i \in 1..Len(issues) :
          /\ issues[i].path = path \o "." \o k
          /\ startsWith(issues[i].message, "Unknown property")}

\* the declared names validateElement reports as missing for el
ReportedMissing(el, obj, path) ==
  LET issues == validateElement(walker, el, obj, path, options)
  IN {n \in {c.name : c \in Range(getChildElementsForElement(walker, el))}
            \cup {a.name : a \in Range(getAttributesForElement(walker, el))} :
        \E i \in 1..Len(issues) :
          /\ startsWith(issues[i].message, "Required")
          /\ \/ issues[i].path = path \o "." \o n
             \/ issues[i].path = path \o "." \o options.attributePrefix \o n}

\* node was built from obj for el, whose type declares no wildcard, and not
\* from the text-node key alone: the keys validateElement reports as unknown
\* are the keys of which node holds nothing, every child element and every
\* attribute without a default in node is named by a key validateElement
\* does not report, and a declared name it reports as missing is absent
KeysClassifiedAlike(el, obj, node, path) ==
  LET unknown == ReportedUnknown(el, obj, path)
      missing == ReportedMissing(el, obj, path)
      attrDefs == getAttributesForElement(walker, el)
      childNames == {c.name : c \in Range(getChildElementsForElement(walker, el))}
      attrKeys == {options.attributePrefix \o a.name : a \in Range(attrDefs)}
      given == {k \in Range(obj.keys) :
                  /\ k # options.textNodeKey
                  /\ ~isNullish(Get(obj, k))
                  /\ Get(obj, k) # JArr(<<>>)}
  IN /\ \A k \in given :
          k \in unknown <=>
            /\ ElementsNamed(node, k) = <<>>
            /\ \A a \in Range(attrDefs) :
                 k = options.attributePrefix \o a.name => AttributesNamed(node, a.name) = <<>>
     /\ \A k \in given \ unknown :
          \/ k \in childNames /\ ElementsNamed(node, k) # <<>>
          \/ k \in attrKeys
     /\ \A i \in 1..Len(node.kids) :
          node.kids[i].kind = "element" => node.kids[i].name \in given \ unknown
     /\ \A a \in Range(attrDefs) :
          AttributesNamed(node, a.name) # <<>> =>
            \/ options.attributePrefix \o a.name \in Range(obj.keys) \ unknown
            \/ a.hasDefault
     /\ \A n \in missing :
          /\ n \in childNames => ElementsNamed(node, n) = <<>>
          /\ \A a \in Range(attrDefs) :
               (a.name = n /\ ~a.hasDefault /\ n \notin childNames)
                 => AttributesNamed(node, n) = <<>>

\* the element declaration of who among the resolved children of holder
WhoEl ==
  LET resolvedChildren == getChildElementsForElement(walker, lookupElement(walker, "holder"))
  IN resolvedChildren[CHOOSE i \in 1..Len(resolvedChildren) : resolvedChildren[i].name = "who"]

\* the type of el gives its content by the text-node key of obj
BuiltFromTextNode(el, obj) ==
  /\ resolveComplexTypeForElement(walker, el).hasTextContent
  /\ Get(obj, options.textNodeKey).t # "undefined"

====
